---- MODULE Spec2Model ----
(***************************************************************************)
(* Model of friday-screener: ScoringWeights construction,                  *)
(* FundamentalAnalyzer.analyze and batch_analyze, the rating derivation,   *)
(* the is_growing_trend and normalize_ticker helpers, and the cache and    *)
(* thread pool of YahooFinanceService.                                     *)
(*                                                                         *)
(* Number representation (Python floats become scaled integers):           *)
(*   - weights are in ten-thousandths        (0.25  -> 2500)               *)
(*   - ratios, margins, yields, beta are in hundredths (4.00 -> 400,       *)
(*     0.35 -> 35, 35.0 -> 3500)                                           *)
(*   - market cap is in units of 1e11        (1e12 -> 10, 1e14 -> 1000)    *)
(*   - category scores are whole points      (the code only adds integers) *)
(*   - total_score is in hundredths of a point (round(x, 2))               *)
(* An absent value (Python None) is the empty sequence, a present value v  *)
(* is the one-element sequence <<v>>.                                      *)
(***************************************************************************)
EXTENDS Integers, Sequences, FiniteSets, TLC

VARIABLES
    sw,         \* the ScoringWeights(...) call under study: arguments, outcome, object
    weights,    \* FundamentalAnalyzer.weights
    criteria,   \* FundamentalAnalyzer.criteria
    stock,      \* the StockData last passed to analyze
    result,     \* the ScreeningResult last returned by analyze
    rerun,      \* the ScreeningResult of analysing the same StockData again
    peer,       \* a second StockData, differing in P/E only, and its result
    batch,      \* the batch_analyze call: its stocks_data and returned list
    trend,      \* the is_growing_trend call: its arguments and returned value
    calls,      \* the accumulation calls made on result, in call order
    cache,      \* YahooFinanceService.cache: normalized ticker -> StockData
    pool,       \* the get_multiple_stocks call in progress and its futures
    reply,      \* the last call made on the service, once it has returned
    served,     \* number of requests made on the service so far
    yahoo       \* the data layer: number of StockData objects built so far

\* the variables of the analyzer, of the helper calls and of the service
scoringVars == <<sw, weights, criteria, stock, result, rerun>>

helperVars == <<peer, batch, trend, calls>>

serviceVars == <<cache, pool, reply, served, yahoo>>

vars == <<sw, weights, criteria, stock, result, rerun,
          peer, batch, trend, calls, cache, pool, reply, served, yahoo>>

None == <<>>

Some(v) == <<v>>

(***************************************************************************)
(* Bounds of the model.                                                    *)
(***************************************************************************)
\* largest number of field assignments made to one ScoringWeights object
MaxAssign == 1
\* EPS values are drawn from 1..MaxEps
MaxEps == 3
\* total_score values handed to the rating derivation: -MaxTotal..MaxTotal
MaxTotal == 10100
\* longest list handed to batch_analyze
MaxBatch == 3
\* longest sequence handed to is_growing_trend (besides the two documented
\* examples), and largest min_positive_years
MaxTrendLen == 5
\* number of requests made on one YahooFinanceService over its life: each
\* call is one request, a get_multiple_stocks call one per ticker passed in
MaxRequests == 2
\* largest max_workers handed to get_multiple_stocks
MaxWorkers == 2
\* number of accumulation calls made on one ScreeningResult
MaxCalls == 3

(***************************************************************************)
(* Arithmetic helpers.                                                     *)
(***************************************************************************)
\* Python round(): nearest multiple of d, an exact tie going to the even
\* quotient.  (Whether a float sits exactly on a decimal tie depends on its
\* binary representation, which scaled integers do not carry; the analyzer
\* weights below are multiples of 0.0004, for which score * weight sums are
\* never on a tie.)
RoundHalfEven(n, d) ==
    LET q == n \div d
        r == n % d
    IN  IF 2 * r < d THEN q
        ELSE IF 2 * r > d THEN q + 1
        ELSE IF q % 2 = 0 THEN q ELSE q + 1

\* f"{x:.1f}" of a value held in hundredths: the value in tenths
Fmt1(v) == RoundHalfEven(v, 10)

\* f"{x:.2f}" of a value held in hundredths: exact
Fmt2(v) == RoundHalfEven(v, 1)

(***************************************************************************)
(* config/settings.py                                                      *)
(***************************************************************************)
\* ProfitabilityCriteria.eps_growth_years: an EPS history spans 5 years
EpsYears == 5

DEFAULT_CRITERIA ==
    [ pe_ratio_preferred       |-> 500,
      pe_ratio_max             |-> 1500,
      pbv_preferred            |-> 100,
      pbv_max                  |-> 200,
      market_cap_preferred     |-> 1000,
      market_cap_min           |-> 10,
      gpm_min                  |-> 2000,
      gpm_preferred            |-> 3000,
      roe_min                  |-> 1000,
      roe_preferred            |-> 1500,
      debt_to_equity_max       |-> 100,
      debt_to_equity_preferred |-> 50,
      beta_max                 |-> Some(150),
      dividend_yield_min       |-> 200,
      dividend_yield_preferred |-> 400,
      require_dividend         |-> TRUE ]

\* the criteria an analyzer is constructed with: the defaults, with the
\* nullable beta_max and the require_dividend policy flag overridden
CriteriaChoices ==
    { [DEFAULT_CRITERIA EXCEPT !.beta_max = bm, !.require_dividend = rd] :
        bm \in {None, Some(150)}, rd \in BOOLEAN }

WeightsRecord(v, p, r, d) ==
    [ valuation_weight     |-> v,
      profitability_weight |-> p,
      risk_weight          |-> r,
      dividend_weight      |-> d ]

WeightSum(w) ==
    w.valuation_weight + w.profitability_weight + w.risk_weight + w.dividend_weight

\* variant: the tolerance taken with strict comparisons
WeightsAcceptedStrict(w) ==
    9900 < WeightSum(w) /\ WeightSum(w) < 10100

\* the guard of __post_init__: TRUE when no ValueError is raised
WeightsAccepted(w) ==
    9900 <= WeightSum(w) /\ WeightSum(w) <= 10100

\* ScoringWeights(v, p, r, d): the fields are stored as given, then
\* __post_init__ raises or returns
ScoringWeights(v, p, r, d) ==
    LET w == WeightsRecord(v, p, r, d)
    IN  IF WeightsAccepted(w)
        THEN [outcome |-> "ok", obj |-> Some(w)]
        ELSE [outcome |-> "error", obj |-> None]

DEFAULT_WEIGHTS == WeightsRecord(2500, 3500, 2000, 2000)

WeightFields ==
    {"valuation_weight", "profitability_weight", "risk_weight", "dividend_weight"}

\* values a weight argument or an assigned weight is drawn from
WeightValues == {-5000, 0, 2000, 2450, 2500, 2550, 3500, 5000}

(***************************************************************************)
(* models/stock_data.py                                                    *)
(***************************************************************************)
\* StockData with every metric absent and an empty EPS history
AbsentStock ==
    [ pe_ratio            |-> None,
      price_to_book       |-> None,
      market_cap          |-> None,
      eps_history         |-> <<>>,
      gross_margin        |-> None,
      roe                 |-> None,
      operating_cash_flow |-> None,
      free_cash_flow      |-> None,
      debt_to_equity      |-> None,
      beta                |-> None,
      dividend_yield      |-> None,
      current_price       |-> None,
      eps                 |-> None,
      forward_pe          |-> None,
      operating_margin    |-> None,
      profit_margin       |-> None,
      data_quality_score  |-> None ]

\* variant: a metric of zero counts as missing
has_complete_data_Truthy(stock_data) ==
    /\ stock_data.pe_ratio \notin {None, Some(0)}
    /\ stock_data.price_to_book \notin {None, Some(0)}
    /\ stock_data.roe \notin {None, Some(0)}
    /\ stock_data.gross_margin \notin {None, Some(0)}
    /\ stock_data.debt_to_equity \notin {None, Some(0)}

has_complete_data(stock_data) ==
    /\ stock_data.pe_ratio # None
    /\ stock_data.price_to_book # None
    /\ stock_data.roe # None
    /\ stock_data.gross_margin # None
    /\ stock_data.debt_to_equity # None

(***************************************************************************)
(* services/yahoo_finance_service.py: the completeness score               *)
(***************************************************************************)
\* critical fields, weight 1.0 each
critical_fields ==
    { "pe_ratio", "price_to_book", "market_cap", "roe", "gross_margin", "eps",
      "debt_to_equity", "operating_cash_flow" }

\* additional fields, weight 0.5 each
additional_fields ==
    { "forward_pe", "profit_margin", "operating_margin", "free_cash_flow",
      "dividend_yield" }

\* min((achieved_weight / total_weight) * 100, 100.0), weights counted in
\* halves; the score is held in hundredths of a percent, cut off below that
_calculate_data_quality(stock_data) ==
    LET total_weight ==
            2 * Cardinality(critical_fields) + Cardinality(additional_fields)
        achieved_weight ==
            2 * Cardinality({f \in critical_fields : stock_data[f] # None})
            + Cardinality({f \in additional_fields : stock_data[f] # None})
        quality_score == (achieved_weight * 10000) \div total_weight
    IN  IF quality_score <= 10000 THEN quality_score ELSE 10000

\* _build_stock_data: the StockData carries the score of its own metrics
WithDataQuality(stock_data) ==
    [stock_data EXCEPT !.data_quality_score = Some(_calculate_data_quality(stock_data))]

(***************************************************************************)
(* utils/helpers.py: normalize_ticker.  A ticker is a Python str, held as  *)
(* the sequence of its characters.                                         *)
(***************************************************************************)
Whitespace == {" "}

UpperCaseLetters ==
    { "A", "B", "C", "D", "E", "F", "G", "H", "I", "J", "K", "L", "M",
      "N", "O", "P", "Q", "R", "S", "T", "U", "V", "W", "X", "Y", "Z" }

\* the lower-case letters of the tickers in use and their upper-case forms
UpperCaseOf ==
    ("a" :> "A") @@ ("b" :> "B") @@ ("c" :> "C") @@ ("j" :> "J") @@ ("k" :> "K")
    @@ ("l" :> "L") @@ ("m" :> "M") @@ ("t" :> "T")

RECURSIVE lstrip(_)
lstrip(t) == IF t # <<>> /\ Head(t) \in Whitespace THEN lstrip(Tail(t)) ELSE t

RECURSIVE rstrip(_)
rstrip(t) ==
    IF t # <<>> /\ t[Len(t)] \in Whitespace
    THEN rstrip(SubSeq(t, 1, Len(t) - 1))
    ELSE t

\* str.strip()
strip(t) == rstrip(lstrip(t))

\* str.upper()
upper(t) ==
    [i \in DOMAIN t |-> IF t[i] \in DOMAIN UpperCaseOf THEN UpperCaseOf[t[i]] ELSE t[i]]

\* str.isalpha(): non-empty and letters only
isalpha(t) ==
    /\ t # <<>>
    /\ \A i \in DOMAIN t : t[i] \in UpperCaseLetters \cup DOMAIN UpperCaseOf

normalize_ticker(ticker) ==
    LET t == upper(strip(ticker))
    IN  IF isalpha(t) /\ ~(\E i \in DOMAIN t : t[i] = ".")
        THEN t \o <<".", "J", "K">>
        ELSE t

(***************************************************************************)
(* services/yahoo_finance_service.py: get_stock_data                       *)
(***************************************************************************)
\* what one round with the Yahoo API gives: an exception raised inside the
\* try block, or the keys of the info mapping it returned
YahooReplies ==
    { [raises |-> TRUE,  info |-> {}],
      [raises |-> FALSE, info |-> {}],
      [raises |-> FALSE, info |-> {"shortName"}],
      [raises |-> FALSE, info |-> {"symbol", "shortName"}] }

\* variant: only an empty info mapping counts as a failed fetch
InfoMissing_EmptyOnly(info) == info = {}

\* not info or "symbol" not in info
InfoMissing(info) == info = {} \/ "symbol" \notin info

\* the fetch ends in "return None": the except branch or the info check
FetchFails(api) == api.raises \/ InfoMissing(api.info)

\* the StockData object _build_stock_data returns, reduced to what the cache
\* is concerned with: the ticker it was built for and an id that tells the
\* objects built over time apart
_build_stock_data(ticker, id) == [ticker |-> ticker, id |-> id]

\* variant: the cache looked up under the ticker as passed in
CacheHit_RawTicker(c, ticker, use_cache) == use_cache /\ ticker \in DOMAIN c

\* use_cache and normalized_ticker in self.cache
CacheHit(c, ticker, use_cache) == use_cache /\ normalize_ticker(ticker) \in DOMAIN c

\* self.cache[normalized_ticker] = stock_data
CacheStore(c, normalized_ticker, stock_data) ==
    [n \in DOMAIN c \cup {normalized_ticker} |->
        IF n = normalized_ticker THEN stock_data ELSE c[n]]

\* get_stock_data(ticker, use_cache) run against cache c, y.built objects
\* having been built before, the Yahoo API answering api: the value
\* returned, the cache left behind, and whether the API was asked
get_stock_data(c, y, ticker, use_cache, api) ==
    LET normalized_ticker == normalize_ticker(ticker)
        stock_data == _build_stock_data(normalized_ticker, y.built + 1)
    IN  IF CacheHit(c, ticker, use_cache)
        THEN [value |-> Some(c[normalized_ticker]), cache |-> c, yahoo |-> y,
              fetched |-> FALSE]
        ELSE IF FetchFails(api)
        THEN [value |-> None, cache |-> c, yahoo |-> y, fetched |-> TRUE]
        ELSE [value |-> Some(stock_data),
              cache |-> CacheStore(c, normalized_ticker, stock_data),
              yahoo |-> [y EXCEPT !.built = @ + 1],
              fetched |-> TRUE]

(***************************************************************************)
(* services/yahoo_finance_service.py: get_multiple_stocks.  A future is    *)
(* [ticker, state, value] with state "queued" (submitted, its fetch not    *)
(* returned yet), "done" (the worker returned) or "collected"              *)
(* (as_completed has yielded it).                                          *)
(***************************************************************************)
\* variant: tickers found in the cache are left out of the results
Precheck_SkipsCached(c, tickers, use_cache) ==
    [ results |-> <<>>,
      uncached_tickers |->
          SelectSeq(tickers, LAMBDA t : ~CacheHit(c, t, use_cache)) ]

\* the loop over tickers when use_cache, uncached_tickers = tickers otherwise
Precheck(c, tickers, use_cache) ==
    [ results |->
          [t \in {tickers[i] : i \in {j \in DOMAIN tickers :
                                         CacheHit(c, tickers[j], use_cache)}} |->
              Some(c[normalize_ticker(t)])],
      uncached_tickers |->
          SelectSeq(tickers, LAMBDA t : ~CacheHit(c, t, use_cache)) ]

\* executor.submit(self.get_stock_data, ticker, False) for each ticker
Submit(uncached_tickers) ==
    [i \in DOMAIN uncached_tickers |->
        [ticker |-> uncached_tickers[i], state |-> "queued", value |-> None]]

\* results[ticker] = stock_data
SetResult(results, ticker, value) ==
    [t \in DOMAIN results \cup {ticker} |-> IF t = ticker THEN value ELSE results[t]]

\* the fetches submitted before fetch i that have not returned yet: the
\* pool takes the fetches up in submission order, max_workers at a time, so
\* fetch i is in a worker's hands once fewer than max_workers are ahead
Ahead(futures, i) == {j \in 1..(i - 1) : futures[j].state = "queued"}

(***************************************************************************)
(* models/screening_result.py                                              *)
(***************************************************************************)
Ratings ==
    {"VERY_STRONG", "STRONG", "FAIR", "WEAK", "VERY_WEAK", "INSUFFICIENT_DATA"}

\* a finding text: the literal part and the formatted numbers it embeds
Msg(text, args) == <<text, args>>

CategoryScore(category, score, weight) ==
    [ category  |-> category,
      score     |-> score,
      max_score |-> 100,
      weight    |-> weight,
      passed    |-> FALSE,
      details   |-> <<>> ]

ScreeningMetrics ==
    [ total_score         |-> 0,
      max_possible_score  |-> 100,
      valuation_score     |-> CategoryScore("Valuation", 0, 0),
      profitability_score |-> CategoryScore("Profitability", 0, 0),
      risk_score          |-> CategoryScore("Risk", 0, 0),
      dividend_score      |-> CategoryScore("Dividend", 0, 0) ]

\* field(default_factory=list): every new ScreeningResult gets new, empty lists
DefaultInsights == <<>>

\* variant: one list object shared by all results
DefaultRedFlagsShared == IF result = None THEN <<>> ELSE result[1].red_flags

DefaultRedFlags == <<>>

DefaultStrengths == <<>>

DefaultWeaknesses == <<>>

ScreeningResult(data_completeness) ==
    [ rating            |-> "INSUFFICIENT_DATA",
      metrics           |-> ScreeningMetrics,
      insights          |-> DefaultInsights,
      red_flags         |-> DefaultRedFlags,
      strengths         |-> DefaultStrengths,
      weaknesses        |-> DefaultWeaknesses,
      key_metrics       |-> <<>>,
      data_completeness |-> data_completeness ]

Insight(category, severity, title, description, impact) ==
    [ category    |-> category,
      severity    |-> severity,
      title       |-> title,
      description |-> description,
      impact      |-> impact ]

add_insight(res, category, severity, title, description, impact) ==
    [res EXCEPT !.insights =
        Append(@, Insight(category, severity, title, description, impact))]

\* variant: the newest red flag goes to the front of the list
add_red_flag_Prepend(res, message) == [res EXCEPT !.red_flags = <<message>> \o @]

add_red_flag(res, message) == [res EXCEPT !.red_flags = Append(@, message)]

add_strength(res, message) == [res EXCEPT !.strengths = Append(@, message)]

add_weakness(res, message) == [res EXCEPT !.weaknesses = Append(@, message)]

\* variant: strict comparisons at the breakpoints
calculate_rating_from_score_Exclusive(res) ==
    LET score == res.metrics.total_score
    IN  IF score > 8000 THEN "VERY_STRONG"
        ELSE IF score > 6000 THEN "STRONG"
        ELSE IF score > 4000 THEN "FAIR"
        ELSE IF score > 2000 THEN "WEAK"
        ELSE "VERY_WEAK"

\* variant: a result without any data completeness is left unrated
calculate_rating_from_score_Unrated(res) ==
    LET score == res.metrics.total_score
    IN  IF res.data_completeness = 0 THEN "INSUFFICIENT_DATA"
        ELSE IF score >= 8000 THEN "VERY_STRONG"
        ELSE IF score >= 6000 THEN "STRONG"
        ELSE IF score >= 4000 THEN "FAIR"
        ELSE IF score >= 2000 THEN "WEAK"
        ELSE "VERY_WEAK"

calculate_rating_from_score(res) ==
    LET score == res.metrics.total_score
    IN  IF score >= 8000 THEN "VERY_STRONG"
        ELSE IF score >= 6000 THEN "STRONG"
        ELSE IF score >= 4000 THEN "FAIR"
        ELSE IF score >= 2000 THEN "WEAK"
        ELSE "VERY_WEAK"

(***************************************************************************)
(* analyzers/fundamental_analyzer.py: the category scorers.  A scorer's    *)
(* running state is acc = [score |-> CategoryScore, result |-> result];    *)
(* the code's local "details" dict is acc.score.details throughout.        *)
(***************************************************************************)
Points(acc, n) == [acc EXCEPT !.score.score = @ + n]

Detail(acc, key, value) == [acc EXCEPT !.score.details = (key :> value) @@ @]

Strength(acc, message) == [acc EXCEPT !.result = add_strength(@, message)]

Weakness(acc, message) == [acc EXCEPT !.result = add_weakness(@, message)]

RedFlag(acc, message) == [acc EXCEPT !.result = add_red_flag(@, message)]

Note(acc, category, severity, title, description, impact) ==
    [acc EXCEPT !.result =
        add_insight(@, category, severity, title, description, impact)]

\* variant: a raw value of exactly 1 is taken as a percentage already
ToPercent_BelowOneOnly(v) == IF v < 100 THEN v * 100 ELSE v

\* gpm * 100 if gpm <= 1 else gpm   (also used for roe and dividend yield)
ToPercent(v) == IF v <= 100 THEN v * 100 ELSE v

\* variant: the points of the two upper P/E tiers exchanged
ValuationPE_TiersExchanged(acc, stock_data, c) ==
    LET pe == stock_data.pe_ratio
    IN  IF pe # None /\ pe[1] > 0
        THEN LET a == IF pe[1] <= c.pe_ratio_preferred
                      THEN Strength(Points(acc, 25),
                               Msg("PE Ratio sangat baik", <<Fmt2(pe[1])>>))
                      ELSE IF pe[1] <= c.pe_ratio_max
                      THEN Note(Points(acc, 40), "Valuation", "positive",
                               "PE Ratio acceptable",
                               Msg("PE Ratio masih dalam range acceptable",
                                   <<Fmt2(pe[1]), c.pe_ratio_max>>),
                               "Medium")
                      ELSE Weakness(Points(acc, 10),
                               Msg("PE Ratio tinggi", <<Fmt2(pe[1]), c.pe_ratio_max>>))
             IN  Detail(a, "pe_ratio", pe[1])
        ELSE Weakness(acc, Msg("PE Ratio tidak tersedia", <<>>))

ValuationPE(acc, stock_data, c) ==
    LET pe == stock_data.pe_ratio
    IN  IF pe # None /\ pe[1] > 0
        THEN LET a == IF pe[1] <= c.pe_ratio_preferred
                      THEN Strength(Points(acc, 40),
                               Msg("PE Ratio sangat baik", <<Fmt2(pe[1])>>))
                      ELSE IF pe[1] <= c.pe_ratio_max
                      THEN Note(Points(acc, 25), "Valuation", "positive",
                               "PE Ratio acceptable",
                               Msg("PE Ratio masih dalam range acceptable",
                                   <<Fmt2(pe[1]), c.pe_ratio_max>>),
                               "Medium")
                      ELSE Weakness(Points(acc, 10),
                               Msg("PE Ratio tinggi", <<Fmt2(pe[1]), c.pe_ratio_max>>))
             IN  Detail(a, "pe_ratio", pe[1])
        ELSE Weakness(acc, Msg("PE Ratio tidak tersedia", <<>>))

\* variant: a P/B in the best tier reported as a positive insight
ValuationPBV_BestAsInsight(acc, stock_data, c) ==
    LET pbv == stock_data.price_to_book
    IN  IF pbv # None /\ pbv[1] > 0
        THEN LET a == IF pbv[1] <= c.pbv_max
                      THEN Note(Points(acc, IF pbv[1] <= c.pbv_preferred THEN 40 ELSE 25),
                               "Valuation", "positive",
                               "PBV acceptable",
                               Msg("PBV masih reasonable", <<Fmt2(pbv[1]), c.pbv_max>>),
                               "Medium")
                      ELSE Weakness(Points(acc, 10),
                               Msg("PBV tinggi", <<Fmt2(pbv[1]), c.pbv_max>>))
             IN  Detail(a, "pbv", pbv[1])
        ELSE Weakness(acc, Msg("PBV tidak tersedia", <<>>))

ValuationPBV(acc, stock_data, c) ==
    LET pbv == stock_data.price_to_book
    IN  IF pbv # None /\ pbv[1] > 0
        THEN LET a == IF pbv[1] <= c.pbv_preferred
                      THEN Strength(Points(acc, 40),
                               Msg("PBV sangat baik (undervalued)", <<Fmt2(pbv[1])>>))
                      ELSE IF pbv[1] <= c.pbv_max
                      THEN Note(Points(acc, 25), "Valuation", "positive",
                               "PBV acceptable",
                               Msg("PBV masih reasonable", <<Fmt2(pbv[1]), c.pbv_max>>),
                               "Medium")
                      ELSE Weakness(Points(acc, 10),
                               Msg("PBV tinggi", <<Fmt2(pbv[1]), c.pbv_max>>))
             IN  Detail(a, "pbv", pbv[1])
        ELSE Weakness(acc, Msg("PBV tidak tersedia", <<>>))

\* variant: a market cap below the minimum reported as a weakness
ValuationMarketCap_SmallAsWeakness(acc, stock_data, c) ==
    LET market_cap == stock_data.market_cap
    IN  IF market_cap # None
        THEN LET a == IF market_cap[1] >= c.market_cap_preferred
                      THEN Strength(Points(acc, 20),
                               Msg("Market cap besar - blue chip stock", <<>>))
                      ELSE IF market_cap[1] >= c.market_cap_min
                      THEN Note(Points(acc, 15), "Valuation", "neutral",
                               "Market cap moderate",
                               Msg("Market capitalization dalam range moderate", <<>>),
                               "Low")
                      ELSE Weakness(Points(acc, 5),
                               Msg("Market cap kecil - risiko likuiditas tinggi", <<>>))
             IN  Detail(a, "market_cap", market_cap[1])
        ELSE Weakness(acc, Msg("Market cap tidak tersedia", <<>>))

ValuationMarketCap(acc, stock_data, c) ==
    LET market_cap == stock_data.market_cap
    IN  IF market_cap # None
        THEN LET a == IF market_cap[1] >= c.market_cap_preferred
                      THEN Strength(Points(acc, 20),
                               Msg("Market cap besar - blue chip stock", <<>>))
                      ELSE IF market_cap[1] >= c.market_cap_min
                      THEN Note(Points(acc, 15), "Valuation", "neutral",
                               "Market cap moderate",
                               Msg("Market capitalization dalam range moderate", <<>>),
                               "Low")
                      ELSE RedFlag(Points(acc, 5),
                               Msg("Market cap kecil - risiko likuiditas tinggi", <<>>))
             IN  Detail(a, "market_cap", market_cap[1])
        ELSE Weakness(acc, Msg("Market cap tidak tersedia", <<>>))

\* variant: a score equal to the bar does not pass
Passed_AboveBar(acc, bar) == [acc EXCEPT !.score.passed = (acc.score.score > bar)]

\* score.passed = score.score >= bar
Passed(acc, bar) == [acc EXCEPT !.score.passed = (acc.score.score >= bar)]

_analyze_valuation(stock_data, res, w, c) ==
    LET a0 == [score  |-> CategoryScore("Valuation", 0, w.valuation_weight),
               result |-> res]
        a1 == ValuationPE(a0, stock_data, c)
        a2 == ValuationPBV(a1, stock_data, c)
        a3 == ValuationMarketCap(a2, stock_data, c)
    IN  Passed(a3, 50)

(***************************************************************************)
(* utils/helpers.py                                                        *)
(***************************************************************************)
\* variant: a year that merely repeats the previous value counts as growth
is_growing_trend_NonStrict(values, min_positive_years) ==
    IF Len(values) < 2
    THEN FALSE
    ELSE LET positive_changes ==
                 Cardinality({i \in 2..Len(values) : values[i] >= values[i - 1]})
         IN  positive_changes >= min_positive_years

is_growing_trend(values, min_positive_years) ==
    IF Len(values) < 2
    THEN FALSE
    ELSE LET positive_changes ==
                 Cardinality({i \in 2..Len(values) : values[i] > values[i - 1]})
         IN  positive_changes >= min_positive_years

(***************************************************************************)
(* An EPS history is a Python dict {year: eps}: a sequence of <<year, eps>>*)
(* pairs in insertion order, with pairwise distinct years.                 *)
(***************************************************************************)
DictKeys(d) == {d[i][1] : i \in DOMAIN d}

DictGet(d, key) == d[CHOOSE i \in DOMAIN d : d[i][1] = key][2]

RECURSIVE Sorted(_)
\* sorted(keys): the keys in ascending order
Sorted(S) ==
    IF S = {}
    THEN <<>>
    ELSE LET m == CHOOSE x \in S : \A y \in S : x <= y
         IN  <<m>> \o Sorted(S \ {m})

\* variant: two year-over-year increases are enough for the 30 points
ProfitabilityEPS_TwoIncreases(acc, stock_data) ==
    LET eps_history == stock_data.eps_history
    IN  IF Len(eps_history) >= 2
        THEN LET years == Sorted(DictKeys(eps_history))
                 eps_values == [i \in DOMAIN years |-> DictGet(eps_history, years[i])]
                 n == Len(eps_values)
                 a == IF is_growing_trend(eps_values, 2)
                      THEN Strength(Points(acc, 30),
                               Msg("EPS tumbuh konsisten dalam tahun terakhir", <<n>>))
                      ELSE IF n >= 2 /\ eps_values[n] > eps_values[n - 1]
                      THEN Note(Points(acc, 15), "Profitability", "neutral",
                               "EPS recovery",
                               Msg("EPS menunjukkan recovery di tahun terakhir", <<>>),
                               "Medium")
                      ELSE RedFlag(Points(acc, 5),
                               Msg("EPS tidak menunjukkan pertumbuhan konsisten", <<>>))
                 b == Detail(a, "eps_trend",
                          IF is_growing_trend(eps_values, 3)
                          THEN "growing" ELSE "declining")
             IN  Detail(b, "eps_history", eps_history)
        ELSE Weakness(acc, Msg("Historical EPS data tidak cukup", <<>>))

\* variant: the EPS values taken in the dict's insertion order
ProfitabilityEPS_InsertionOrder(acc, stock_data) ==
    LET eps_history == stock_data.eps_history
    IN  IF Len(eps_history) >= 2
        THEN LET eps_values == [i \in DOMAIN eps_history |-> eps_history[i][2]]
                 n == Len(eps_values)
                 a == IF is_growing_trend(eps_values, 3)
                      THEN Strength(Points(acc, 30),
                               Msg("EPS tumbuh konsisten dalam tahun terakhir", <<n>>))
                      ELSE IF n >= 2 /\ eps_values[n] > eps_values[n - 1]
                      THEN Note(Points(acc, 15), "Profitability", "neutral",
                               "EPS recovery",
                               Msg("EPS menunjukkan recovery di tahun terakhir", <<>>),
                               "Medium")
                      ELSE RedFlag(Points(acc, 5),
                               Msg("EPS tidak menunjukkan pertumbuhan konsisten", <<>>))
                 b == Detail(a, "eps_trend",
                          IF is_growing_trend(eps_values, 3)
                          THEN "growing" ELSE "declining")
             IN  Detail(b, "eps_history", eps_history)
        ELSE Weakness(acc, Msg("Historical EPS data tidak cukup", <<>>))

ProfitabilityEPS(acc, stock_data) ==
    LET eps_history == stock_data.eps_history
    IN  IF Len(eps_history) >= 2
        THEN LET years == Sorted(DictKeys(eps_history))
                 eps_values == [i \in DOMAIN years |-> DictGet(eps_history, years[i])]
                 n == Len(eps_values)
                 a == IF is_growing_trend(eps_values, 3)
                      THEN Strength(Points(acc, 30),
                               Msg("EPS tumbuh konsisten dalam tahun terakhir", <<n>>))
                      ELSE IF n >= 2 /\ eps_values[n] > eps_values[n - 1]
                      THEN Note(Points(acc, 15), "Profitability", "neutral",
                               "EPS recovery",
                               Msg("EPS menunjukkan recovery di tahun terakhir", <<>>),
                               "Medium")
                      ELSE RedFlag(Points(acc, 5),
                               Msg("EPS tidak menunjukkan pertumbuhan konsisten", <<>>))
                 b == Detail(a, "eps_trend",
                          IF is_growing_trend(eps_values, 3)
                          THEN "growing" ELSE "declining")
             IN  Detail(b, "eps_history", eps_history)
        ELSE Weakness(acc, Msg("Historical EPS data tidak cukup", <<>>))

ProfitabilityGrossMargin(acc, stock_data, c) ==
    LET gpm == stock_data.gross_margin
    IN  IF gpm # None
        THEN LET gpm_pct == ToPercent(gpm[1])
                 a == IF gpm_pct >= c.gpm_preferred
                      THEN Strength(Points(acc, 25),
                               Msg("Gross margin excellent", <<Fmt1(gpm_pct)>>))
                      ELSE IF gpm_pct >= c.gpm_min
                      THEN Note(Points(acc, 15), "Profitability", "positive",
                               "Gross margin acceptable",
                               Msg("Gross margin dalam range sehat", <<Fmt1(gpm_pct)>>),
                               "Medium")
                      ELSE Weakness(Points(acc, 5),
                               Msg("Gross margin rendah", <<Fmt1(gpm_pct), c.gpm_min>>))
             IN  Detail(a, "gross_margin", gpm_pct)
        ELSE Weakness(acc, Msg("Gross margin tidak tersedia", <<>>))

ProfitabilityROE(acc, stock_data, c) ==
    LET roe == stock_data.roe
    IN  IF roe # None
        THEN LET roe_pct == ToPercent(roe[1])
                 a == IF roe_pct >= c.roe_preferred
                      THEN Strength(Points(acc, 25),
                               Msg("ROE excellent", <<Fmt1(roe_pct)>>))
                      ELSE IF roe_pct >= c.roe_min
                      THEN Note(Points(acc, 15), "Profitability", "positive",
                               "ROE acceptable",
                               Msg("ROE menunjukkan profitabilitas yang baik",
                                   <<Fmt1(roe_pct)>>),
                               "Medium")
                      ELSE Weakness(Points(acc, 5),
                               Msg("ROE rendah", <<Fmt1(roe_pct), c.roe_min>>))
             IN  Detail(a, "roe", roe_pct)
        ELSE Weakness(acc, Msg("ROE tidak tersedia", <<>>))

\* variant: an absent operating cash flow is passed over without a finding
ProfitabilityOCF_AbsentSilent(acc, stock_data) ==
    LET ocf == stock_data.operating_cash_flow
    IN  IF ocf # None /\ ocf[1] > 0
        THEN Detail(Strength(Points(acc, 10),
                        Msg("Operating cash flow positif", <<>>)),
                    "ocf_positive", TRUE)
        ELSE IF ocf # None
        THEN Detail(RedFlag(acc,
                        Msg("Operating cash flow negatif - masalah arus kas", <<>>)),
                    "ocf_positive", FALSE)
        ELSE acc

ProfitabilityOCF(acc, stock_data) ==
    LET ocf == stock_data.operating_cash_flow
    IN  IF ocf # None /\ ocf[1] > 0
        THEN Detail(Strength(Points(acc, 10),
                        Msg("Operating cash flow positif", <<>>)),
                    "ocf_positive", TRUE)
        ELSE IF ocf # None
        THEN Detail(RedFlag(acc,
                        Msg("Operating cash flow negatif - masalah arus kas", <<>>)),
                    "ocf_positive", FALSE)
        ELSE Weakness(acc, Msg("Operating cash flow tidak tersedia", <<>>))

\* variant: a non-positive free cash flow reported as a red flag, as for the
\* operating cash flow
ProfitabilityFCF_NegativeAsRedFlag(acc, stock_data) ==
    LET fcf == stock_data.free_cash_flow
    IN  IF fcf # None /\ fcf[1] > 0
        THEN Detail(Strength(Points(acc, 10), Msg("Free cash flow positif", <<>>)),
                    "fcf_positive", TRUE)
        ELSE IF fcf # None
        THEN Detail(RedFlag(acc, Msg("Free cash flow negatif", <<>>)),
                    "fcf_positive", FALSE)
        ELSE Weakness(acc, Msg("Free cash flow tidak tersedia", <<>>))

\* variant: the free cash flow check worth 20 points
ProfitabilityFCF_Twenty(acc, stock_data) ==
    LET fcf == stock_data.free_cash_flow
    IN  IF fcf # None /\ fcf[1] > 0
        THEN Detail(Strength(Points(acc, 20), Msg("Free cash flow positif", <<>>)),
                    "fcf_positive", TRUE)
        ELSE IF fcf # None
        THEN Detail(Weakness(acc, Msg("Free cash flow negatif", <<>>)),
                    "fcf_positive", FALSE)
        ELSE Weakness(acc, Msg("Free cash flow tidak tersedia", <<>>))

ProfitabilityFCF(acc, stock_data) ==
    LET fcf == stock_data.free_cash_flow
    IN  IF fcf # None /\ fcf[1] > 0
        THEN Detail(Strength(Points(acc, 10), Msg("Free cash flow positif", <<>>)),
                    "fcf_positive", TRUE)
        ELSE IF fcf # None
        THEN Detail(Weakness(acc, Msg("Free cash flow negatif", <<>>)),
                    "fcf_positive", FALSE)
        ELSE Weakness(acc, Msg("Free cash flow tidak tersedia", <<>>))

_analyze_profitability(stock_data, res, w, c) ==
    LET a0 == [score  |-> CategoryScore("Profitability", 0, w.profitability_weight),
               result |-> res]
        a1 == ProfitabilityEPS(a0, stock_data)
        a2 == ProfitabilityGrossMargin(a1, stock_data, c)
        a3 == ProfitabilityROE(a2, stock_data, c)
        a4 == ProfitabilityOCF(a3, stock_data)
        a5 == ProfitabilityFCF(a4, stock_data)
    IN  Passed(a5, 50)

\* variant: a debt-to-equity equal to the maximum counted as high leverage
RiskDebtToEquity_MaxExclusive(acc, stock_data, c) ==
    LET dte == stock_data.debt_to_equity
    IN  IF dte # None
        THEN LET a == IF dte[1] <= c.debt_to_equity_preferred
                      THEN Strength(Points(acc, 70),
                               Msg("Debt-to-Equity sangat rendah - leverage konservatif",
                                   <<Fmt2(dte[1])>>))
                      ELSE IF dte[1] < c.debt_to_equity_max
                      THEN Note(Points(acc, 45), "Risk", "neutral",
                               "Debt level acceptable",
                               Msg("Debt-to-Equity masih dalam range aman",
                                   <<Fmt2(dte[1])>>),
                               "Medium")
                      ELSE RedFlag(Points(acc, 15),
                               Msg("Debt-to-Equity tinggi - risiko leverage tinggi",
                                   <<Fmt2(dte[1])>>))
             IN  Detail(a, "debt_to_equity", dte[1])
        ELSE Weakness(acc, Msg("Debt-to-Equity tidak tersedia", <<>>))

RiskDebtToEquity(acc, stock_data, c) ==
    LET dte == stock_data.debt_to_equity
    IN  IF dte # None
        THEN LET a == IF dte[1] <= c.debt_to_equity_preferred
                      THEN Strength(Points(acc, 70),
                               Msg("Debt-to-Equity sangat rendah - leverage konservatif",
                                   <<Fmt2(dte[1])>>))
                      ELSE IF dte[1] <= c.debt_to_equity_max
                      THEN Note(Points(acc, 45), "Risk", "neutral",
                               "Debt level acceptable",
                               Msg("Debt-to-Equity masih dalam range aman",
                                   <<Fmt2(dte[1])>>),
                               "Medium")
                      ELSE RedFlag(Points(acc, 15),
                               Msg("Debt-to-Equity tinggi - risiko leverage tinggi",
                                   <<Fmt2(dte[1])>>))
             IN  Detail(a, "debt_to_equity", dte[1])
        ELSE Weakness(acc, Msg("Debt-to-Equity tidak tersedia", <<>>))

\* variant: an absent beta earns nothing and is reported as a weakness
RiskBeta_AbsentAsWeakness(acc, stock_data, c) ==
    LET beta == stock_data.beta
    IN  IF beta # None
        THEN LET a == IF beta[1] <= 100
                      THEN Strength(Points(acc, 30),
                               Msg("Beta rendah - volatilitas lebih rendah dari market",
                                   <<Fmt2(beta[1])>>))
                      ELSE IF c.beta_max # None /\ beta[1] <= c.beta_max[1]
                      THEN Note(Points(acc, 20), "Risk", "neutral",
                               "Beta moderate",
                               Msg("Beta - volatilitas moderate", <<Fmt2(beta[1])>>),
                               "Low")
                      ELSE Weakness(Points(acc, 5),
                               Msg("Beta tinggi - volatilitas lebih tinggi dari market",
                                   <<Fmt2(beta[1])>>))
             IN  Detail(a, "beta", beta[1])
        ELSE Weakness(acc, Msg("Data volatilitas (beta) tidak tersedia", <<>>))

RiskBeta(acc, stock_data, c) ==
    LET beta == stock_data.beta
    IN  IF beta # None
        THEN LET a == IF beta[1] <= 100
                      THEN Strength(Points(acc, 30),
                               Msg("Beta rendah - volatilitas lebih rendah dari market",
                                   <<Fmt2(beta[1])>>))
                      ELSE IF c.beta_max # None /\ beta[1] <= c.beta_max[1]
                      THEN Note(Points(acc, 20), "Risk", "neutral",
                               "Beta moderate",
                               Msg("Beta - volatilitas moderate", <<Fmt2(beta[1])>>),
                               "Low")
                      ELSE Weakness(Points(acc, 5),
                               Msg("Beta tinggi - volatilitas lebih tinggi dari market",
                                   <<Fmt2(beta[1])>>))
             IN  Detail(a, "beta", beta[1])
        ELSE Note(Points(acc, 15), "Risk", "neutral",
                 "Beta data unavailable",
                 Msg("Data volatilitas (beta) tidak tersedia", <<>>),
                 "Low")

\* variant: the risk score records the dividend weight
_analyze_risk_DividendWeight(stock_data, res, w, c) ==
    LET a0 == [score  |-> CategoryScore("Risk", 0, w.dividend_weight),
               result |-> res]
        a1 == RiskDebtToEquity(a0, stock_data, c)
        a2 == RiskBeta(a1, stock_data, c)
    IN  Passed(a2, 50)

_analyze_risk(stock_data, res, w, c) ==
    LET a0 == [score  |-> CategoryScore("Risk", 0, w.risk_weight),
               result |-> res]
        a1 == RiskDebtToEquity(a0, stock_data, c)
        a2 == RiskBeta(a1, stock_data, c)
    IN  Passed(a2, 50)

\* variant: a missing dividend is a red flag whatever the policy
_analyze_dividend_AlwaysRedFlag(stock_data, res, w, c) ==
    LET a0 == [score  |-> CategoryScore("Dividend", 0, w.dividend_weight),
               result |-> res]
        div_yield == stock_data.dividend_yield
        a1 == IF div_yield # None /\ div_yield[1] > 0
              THEN LET div_yield_pct == ToPercent(div_yield[1])
                       a == IF div_yield_pct >= c.dividend_yield_preferred
                            THEN Strength(Points(a0, 100),
                                     Msg("Dividend yield sangat baik",
                                         <<Fmt2(div_yield_pct)>>))
                            ELSE IF div_yield_pct >= c.dividend_yield_min
                            THEN Note(Points(a0, 60), "Dividend", "positive",
                                     "Dividend yield acceptable",
                                     Msg("Dividend yield memberikan return yang reasonable",
                                         <<Fmt2(div_yield_pct)>>),
                                     "Medium")
                            ELSE Weakness(Points(a0, 30),
                                     Msg("Dividend yield rendah",
                                         <<Fmt2(div_yield_pct), c.dividend_yield_min>>))
                   IN  Detail(Detail(a, "dividend_yield", div_yield_pct),
                              "has_dividend", TRUE)
              ELSE Detail(RedFlag(Points(a0, IF c.require_dividend THEN 0 ELSE 20),
                                  Msg("Tidak membayar dividen", <<>>)),
                          "has_dividend", FALSE)
    IN  Passed(a1, 40)

_analyze_dividend(stock_data, res, w, c) ==
    LET a0 == [score  |-> CategoryScore("Dividend", 0, w.dividend_weight),
               result |-> res]
        div_yield == stock_data.dividend_yield
        a1 == IF div_yield # None /\ div_yield[1] > 0
              THEN LET div_yield_pct == ToPercent(div_yield[1])
                       a == IF div_yield_pct >= c.dividend_yield_preferred
                            THEN Strength(Points(a0, 100),
                                     Msg("Dividend yield sangat baik",
                                         <<Fmt2(div_yield_pct)>>))
                            ELSE IF div_yield_pct >= c.dividend_yield_min
                            THEN Note(Points(a0, 60), "Dividend", "positive",
                                     "Dividend yield acceptable",
                                     Msg("Dividend yield memberikan return yang reasonable",
                                         <<Fmt2(div_yield_pct)>>),
                                     "Medium")
                            ELSE Weakness(Points(a0, 30),
                                     Msg("Dividend yield rendah",
                                         <<Fmt2(div_yield_pct), c.dividend_yield_min>>))
                   IN  Detail(Detail(a, "dividend_yield", div_yield_pct),
                              "has_dividend", TRUE)
              ELSE LET a == IF c.require_dividend
                            THEN RedFlag(Points(a0, 0),
                                     Msg("Tidak membayar dividen", <<>>))
                            ELSE Weakness(Points(a0, 20),
                                     Msg("Tidak membayar dividen", <<>>))
                   IN  Detail(a, "has_dividend", FALSE)
    IN  Passed(a1, 40)

\* sum of score * weight is in ten-thousandths of a point; round(total, 2)
\* brings it to hundredths
_calculate_total_score(metrics, w) ==
    LET total == metrics.valuation_score.score * w.valuation_weight
                 + metrics.profitability_score.score * w.profitability_weight
                 + metrics.risk_score.score * w.risk_weight
                 + metrics.dividend_score.score * w.dividend_weight
    IN  RoundHalfEven(total, 100)

_build_key_metrics_summary(stock_data) ==
    [ pe_ratio       |-> stock_data.pe_ratio,
      pbv            |-> stock_data.price_to_book,
      market_cap     |-> stock_data.market_cap,
      roe            |-> stock_data.roe,
      gross_margin   |-> stock_data.gross_margin,
      debt_to_equity |-> stock_data.debt_to_equity,
      dividend_yield |-> stock_data.dividend_yield,
      current_price  |-> stock_data.current_price,
      eps            |-> stock_data.eps ]

\* data_quality_score or 0.0
OrZero(v) == IF v = None THEN 0 ELSE v[1]

\* if not stock_data.has_complete_data(): result.add_red_flag(...)
CheckCompleteness(res, stock_data) ==
    IF ~has_complete_data(stock_data)
    THEN add_red_flag(res,
             Msg("Data tidak lengkap - beberapa metrik fundamental tidak tersedia",
                 <<>>))
    ELSE res

\* result.metrics.<field> = <the CategoryScore a scorer returned>
StoreScore(acc, field) == [acc.result EXCEPT !.metrics[field] = acc.score]

\* result.metrics.total_score = self._calculate_total_score(result.metrics)
StoreTotal(res, w) ==
    [res EXCEPT !.metrics.total_score = _calculate_total_score(res.metrics, w)]

\* result.rating = result.calculate_rating_from_score()
StoreRating(res) == [res EXCEPT !.rating = calculate_rating_from_score(res)]

\* FundamentalAnalyzer.analyze for an analyzer holding weights w, criteria c
analyze(stock_data, w, c) ==
    LET r0 == ScreeningResult(OrZero(stock_data.data_quality_score))
        r1 == CheckCompleteness(r0, stock_data)
        r2 == StoreScore(_analyze_valuation(stock_data, r1, w, c), "valuation_score")
        r3 == StoreScore(_analyze_profitability(stock_data, r2, w, c),
                         "profitability_score")
        r4 == StoreScore(_analyze_risk(stock_data, r3, w, c), "risk_score")
        r5 == StoreScore(_analyze_dividend(stock_data, r4, w, c), "dividend_score")
        r6 == StoreTotal(r5, w)
        r7 == StoreRating(r6)
    IN  [r7 EXCEPT !.key_metrics = _build_key_metrics_summary(stock_data)]

\* variant: an element is placed before the elements of equal total_score
InsertByTotalScore_BeforeTies(sorted, r) ==
    LET k == Cardinality({i \in DOMAIN sorted :
                            sorted[i].metrics.total_score > r.metrics.total_score})
    IN  SubSeq(sorted, 1, k) \o <<r>> \o SubSeq(sorted, k + 1, Len(sorted))

\* one step of the stable descending sort: r goes behind every element whose
\* total_score is at least its own
InsertByTotalScore(sorted, r) ==
    LET k == Cardinality({i \in DOMAIN sorted :
                            sorted[i].metrics.total_score >= r.metrics.total_score})
    IN  SubSeq(sorted, 1, k) \o <<r>> \o SubSeq(sorted, k + 1, Len(sorted))

RECURSIVE SortByTotalScore(_)
\* results.sort(key=lambda x: x.metrics.total_score, reverse=True)
SortByTotalScore(results) ==
    IF results = <<>>
    THEN <<>>
    ELSE InsertByTotalScore(SortByTotalScore(SubSeq(results, 1, Len(results) - 1)),
                            results[Len(results)])

\* FundamentalAnalyzer.batch_analyze: analyze each entry in turn, then sort
batch_analyze(stocks_data, w, c) ==
    SortByTotalScore([i \in DOMAIN stocks_data |-> analyze(stocks_data[i], w, c)])

(***************************************************************************)
(* The StockData inputs.  For each field, <Field>Values holds the values   *)
(* around the thresholds the code compares it with and <Field>Cases one    *)
(* value per branch of its rule.  On top of a profile that fixes all       *)
(* fields (everything absent, or everything in its best tier):             *)
(*   - the fields of one category take every combination of their Cases;   *)
(*   - one field takes each of its Values;                                 *)
(*   - the EPS history is any dict over the years 1..EpsYears.             *)
(***************************************************************************)
Opt(S) == {None} \cup {Some(v) : v \in S}

PEValues == Opt({-100, 0, 400, 500, 600, 1500, 1600})

PECases == Opt({400, 600, 1600})

PBVValues == Opt({0, 80, 100, 150, 200, 250})

PBVCases == Opt({80, 150, 250})

MarketCapValues == Opt({5, 10, 999, 1000})

MarketCapCases == Opt({5, 500, 2000})

GrossMarginValues == Opt({-5, 0, 19, 20, 29, 30, 100, 101, 1999, 2000, 3000})

GrossMarginCases == Opt({19, 20, 30})

RoeValues == Opt({-5, 0, 9, 10, 14, 15, 100, 101, 999, 1000, 1500})

RoeCases == Opt({9, 10, 15})

CashFlowValues == Opt({-1, 0, 1})

CashFlowCases == Opt({0, 1})

DebtToEquityValues == Opt({-10, 0, 50, 51, 100, 101})

DebtToEquityCases == Opt({50, 100, 101})

BetaValues == Opt({-50, 100, 101, 150, 151})

BetaCases == Opt({100, 150, 151})

DividendYieldValues == Opt({-1, 0, 1, 2, 3, 4, 100, 101, 199, 200, 400})

QualityValues == Opt({0, 8571, 10000})

RECURSIVE Reverse(_)
Reverse(q) == IF q = <<>> THEN <<>> ELSE Reverse(Tail(q)) \o <<Head(q)>>

\* the dicts {year: eps} over years 1..EpsYears and values 1..MaxEps, filled
\* oldest year first or newest year first
EpsHistories ==
    LET Asc(f) == LET ys == Sorted(DOMAIN f)
                  IN  [i \in DOMAIN ys |-> <<ys[i], f[ys[i]]>>]
        Dicts == UNION { [Y -> 1..MaxEps] : Y \in SUBSET (1..EpsYears) }
    IN  { Asc(f) : f \in Dicts } \cup { Reverse(Asc(f)) : f \in Dicts }

\* one EPS history per outcome of the EPS rule
EpsCases ==
    { <<>>,
      << <<1, 1>> >>,
      << <<1, 1>>, <<2, 2>>, <<3, 3>>, <<4, 4>> >>,
      << <<1, 2>>, <<2, 1>>, <<3, 2>> >>,
      << <<1, 2>>, <<2, 1>> >> }

BestStock ==
    [ pe_ratio            |-> Some(400),
      price_to_book       |-> Some(80),
      market_cap          |-> Some(2000),
      eps_history         |-> << <<1, 1>>, <<2, 2>>, <<3, 3>>, <<4, 4>> >>,
      gross_margin        |-> Some(35),
      roe                 |-> Some(20),
      operating_cash_flow |-> Some(1),
      free_cash_flow      |-> Some(1),
      debt_to_equity      |-> Some(30),
      beta                |-> Some(80),
      dividend_yield      |-> Some(5),
      current_price       |-> Some(100000),
      eps                 |-> Some(4),
      forward_pe          |-> Some(400),
      operating_margin    |-> Some(30),
      profit_margin       |-> Some(25),
      data_quality_score  |-> Some(10000) ]

Profiles == {AbsentStock, BestStock}

ValuationStocks(b) ==
    { [b EXCEPT !.pe_ratio = pe, !.price_to_book = pbv, !.market_cap = mc] :
        pe \in PECases, pbv \in PBVCases, mc \in MarketCapCases }

ProfitabilityStocks(b) ==
    { [b EXCEPT !.eps_history = e, !.gross_margin = g, !.roe = r,
                !.operating_cash_flow = o, !.free_cash_flow = f] :
        e \in EpsCases, g \in GrossMarginCases, r \in RoeCases,
        o \in CashFlowCases, f \in CashFlowCases }

RiskStocks(b) ==
    { [b EXCEPT !.debt_to_equity = d, !.beta = bt] :
        d \in DebtToEquityCases, bt \in BetaCases }

FieldStocks(b) ==
    { [b EXCEPT !.pe_ratio = v] : v \in PEValues }
    \cup { [b EXCEPT !.price_to_book = v] : v \in PBVValues }
    \cup { [b EXCEPT !.market_cap = v] : v \in MarketCapValues }
    \cup { [b EXCEPT !.gross_margin = v] : v \in GrossMarginValues }
    \cup { [b EXCEPT !.roe = v] : v \in RoeValues }
    \cup { [b EXCEPT !.operating_cash_flow = v] : v \in CashFlowValues }
    \cup { [b EXCEPT !.free_cash_flow = v] : v \in CashFlowValues }
    \cup { [b EXCEPT !.debt_to_equity = v] : v \in DebtToEquityValues }
    \cup { [b EXCEPT !.beta = v] : v \in BetaValues }
    \cup { [b EXCEPT !.dividend_yield = v] : v \in DividendYieldValues }
    \cup { [b EXCEPT !.data_quality_score = v] : v \in QualityValues }

EpsStocks(b) == { [b EXCEPT !.eps_history = e] : e \in EpsHistories }

\* the StockData the service builds: one scored field set or cleared in a
\* profile, the completeness score computed from the outcome
BuiltStocks(b) ==
    { WithDataQuality([b EXCEPT ![f] = v]) :
        f \in critical_fields \cup additional_fields, v \in Opt({1}) }

Stocks ==
    EpsStocks(AbsentStock)
    \cup UNION { ValuationStocks(b) \cup ProfitabilityStocks(b) \cup RiskStocks(b)
                 \cup FieldStocks(b) \cup BuiltStocks(b) : b \in Profiles }

(***************************************************************************)
(* The weights an analyzer is constructed with: whatever ScoringWeights    *)
(* accepts among the default, the two ends of the tolerance, weights that  *)
(* need rounding, a single-category weighting, a set with negative         *)
(* components, and a set summing to 1.20.                                  *)
(***************************************************************************)
AnalyzerWeightArgs ==
    { <<2500, 3500, 2000, 2000>>,
      <<2600, 3500, 2000, 2000>>,
      <<2400, 3500, 2000, 2000>>,
      <<2504, 3496, 2000, 2000>>,
      <<0, 0, 0, 10000>>,
      <<-20000, 0, 30000, 0>>,
      <<4000, 4000, 2000, 2000>> }

AnalyzerWeights ==
    { ScoringWeights(a[1], a[2], a[3], a[4]).obj[1] :
        a \in { x \in AnalyzerWeightArgs :
                  ScoringWeights(x[1], x[2], x[3], x[4]).outcome = "ok" } }

\* the analyzers: any accepted weights with the default criteria, and the
\* default weights with any criteria
AnalyzerConfigs ==
    { [weights |-> w, criteria |-> DEFAULT_CRITERIA] : w \in AnalyzerWeights }
    \cup { [weights |-> DEFAULT_WEIGHTS, criteria |-> c] : c \in CriteriaChoices }

(***************************************************************************)
(* Specification Spec: an analyzer analysing stocks.                       *)
(***************************************************************************)
NoCall == [args |-> None, outcome |-> "none", obj |-> None, assigns |-> 0]

\* no helper has been called
NoHelperCall ==
    /\ peer = None
    /\ batch = None
    /\ trend = None
    /\ calls = <<>>

\* YahooFinanceService(): an empty cache, nothing fetched, nothing in progress
NewService ==
    /\ cache = <<>>
    /\ pool = None
    /\ reply = None
    /\ served = 0
    /\ yahoo = [built |-> 0]

\* FundamentalAnalyzer(criteria, weights), nothing analysed yet
Init ==
    /\ NoHelperCall
    /\ NewService
    /\ sw = NoCall
    /\ \E cfg \in AnalyzerConfigs :
          /\ weights = cfg.weights
          /\ criteria = cfg.criteria
    /\ stock = None
    /\ result = None
    /\ rerun = None

\* result = analyzer.analyze(s) for some StockData s, the analyzer's first call
Analyze ==
    /\ result = None
    /\ \E s \in Stocks :
          /\ stock' = Some(s)
          /\ result' = Some(analyze(s, weights, criteria))
    /\ rerun' = None
    /\ UNCHANGED <<sw, weights, criteria>>
    /\ UNCHANGED <<helperVars, serviceVars>>

\* the analyzer's second call, on the same StockData
Reanalyze ==
    /\ result # None
    /\ rerun = None
    /\ rerun' = Some(analyze(stock[1], weights, criteria))
    /\ UNCHANGED <<sw, weights, criteria, stock, result>>
    /\ UNCHANGED <<helperVars, serviceVars>>

Next ==
    \/ Analyze
    \/ Reanalyze

Spec == Init /\ [][Next]_vars

(***************************************************************************)
(* Specification SpecWeights: one ScoringWeights(...) call and the field   *)
(* assignments made to the object it returns (the dataclass is not frozen).*)
(***************************************************************************)
InitWeights ==
    /\ NoHelperCall
    /\ NewService
    /\ sw = NoCall
    /\ weights = DEFAULT_WEIGHTS
    /\ criteria = DEFAULT_CRITERIA
    /\ stock = None
    /\ result = None
    /\ rerun = None

\* ScoringWeights(v, p, r, d)
Construct(v, p, r, d) ==
    /\ sw.outcome = "none"
    /\ LET call == ScoringWeights(v, p, r, d)
       IN  sw' = [args |-> Some(<<v, p, r, d>>), outcome |-> call.outcome,
                  obj |-> call.obj, assigns |-> 0]
    /\ UNCHANGED <<weights, criteria, stock, result, rerun>>
    /\ UNCHANGED <<helperVars, serviceVars>>

\* obj.<field> = value: a plain attribute store, __post_init__ does not run
AssignWeight(field, value) ==
    /\ sw.obj # None
    /\ sw.assigns < MaxAssign
    /\ sw' = [sw EXCEPT !.obj = Some([sw.obj[1] EXCEPT ![field] = value]),
                        !.assigns = @ + 1]
    /\ UNCHANGED <<weights, criteria, stock, result, rerun>>
    /\ UNCHANGED <<helperVars, serviceVars>>

NextWeights ==
    \/ \E v, p, r, d \in WeightValues : Construct(v, p, r, d)
    \/ \E f \in WeightFields, x \in WeightValues : AssignWeight(f, x)

SpecWeights == InitWeights /\ [][NextWeights]_vars

(***************************************************************************)
(* Specification SpecRating: calculate_rating_from_score applied to a      *)
(* ScreeningResult holding any total_score.                                *)
(***************************************************************************)
InitRating ==
    /\ NoHelperCall
    /\ NewService
    /\ sw = NoCall
    /\ weights = DEFAULT_WEIGHTS
    /\ criteria = DEFAULT_CRITERIA
    /\ stock = None
    /\ rerun = None
    /\ \E t \in (-MaxTotal)..MaxTotal, dc \in {0, 10000} :
          result = Some([ScreeningResult(dc) EXCEPT !.metrics.total_score = t])

\* result.rating = result.calculate_rating_from_score()
ApplyRating ==
    /\ result # None
    /\ result[1].rating = "INSUFFICIENT_DATA"
    /\ result' = Some(StoreRating(result[1]))
    /\ UNCHANGED <<sw, weights, criteria, stock, rerun>>
    /\ UNCHANGED <<helperVars, serviceVars>>

NextRating == ApplyRating

SpecRating == InitRating /\ [][NextRating]_vars

(***************************************************************************)
(* Specification SpecBatch: one batch_analyze call of an analyzer.         *)
(***************************************************************************)
\* the sequences over S of length at most n
SeqsUpTo(S, n) == UNION { [1..k -> S] : k \in 0..n }

\* the entries of a batch: two stocks whose results differ but whose totals
\* are equal, one scoring lower, and one with everything absent
BatchStocks ==
    { BestStock,
      [BestStock EXCEPT !.pe_ratio = Some(500)],
      [BestStock EXCEPT !.pe_ratio = Some(600)],
      AbsentStock }

InitBatch ==
    /\ NoHelperCall
    /\ NewService
    /\ sw = NoCall
    /\ \E cfg \in AnalyzerConfigs :
          /\ weights = cfg.weights
          /\ criteria = cfg.criteria
    /\ stock = None
    /\ result = None
    /\ rerun = None

\* results = analyzer.batch_analyze(stocks_data)
BatchAnalyze ==
    /\ batch = None
    /\ \E stocks_data \in SeqsUpTo(BatchStocks, MaxBatch) :
          batch' = Some([ stocks_data |-> stocks_data,
                          results     |-> batch_analyze(stocks_data, weights, criteria) ])
    /\ UNCHANGED <<scoringVars, peer, trend, calls, serviceVars>>

NextBatch == BatchAnalyze

SpecBatch == InitBatch /\ [][NextBatch]_vars

(***************************************************************************)
(* Specification SpecTrend: one is_growing_trend call.                     *)
(***************************************************************************)
TrendValues == 1..5

\* the value lists: every list of up to MaxTrendLen values, and the two
\* lists of the documented examples
TrendInputs ==
    SeqsUpTo(TrendValues, MaxTrendLen)
    \cup { <<1, 2, 1, 3, 2, 4>>, <<5, 4, 3, 2, 1>> }

\* the min_positive_years argument: omitted, or a given number
TrendMinimums == Opt((-1)..MaxTrendLen)

InitTrend ==
    /\ NoHelperCall
    /\ NewService
    /\ sw = NoCall
    /\ weights = DEFAULT_WEIGHTS
    /\ criteria = DEFAULT_CRITERIA
    /\ stock = None
    /\ result = None
    /\ rerun = None

\* is_growing_trend(values) or is_growing_trend(values, m); the parameter
\* min_positive_years defaults to 3
CallTrend ==
    /\ trend = None
    /\ \E values \in TrendInputs, arg \in TrendMinimums :
          LET min_positive_years == IF arg = None THEN 3 ELSE arg[1]
          IN  trend' = Some([ values   |-> values,
                              arg      |-> arg,
                              returned |-> is_growing_trend(values, min_positive_years) ])
    /\ UNCHANGED <<scoringVars, peer, batch, calls, serviceVars>>

NextTrend == CallTrend

SpecTrend == InitTrend /\ [][NextTrend]_vars

(***************************************************************************)
(* Specification SpecPeer: an analyzer analysing a StockData and then a    *)
(* second one that differs from it in the P/E ratio only.                  *)
(***************************************************************************)
\* a profile with every combination of a P/E value, a P/B case and a market
\* cap case
PeerStocks ==
    UNION { { [b EXCEPT !.pe_ratio = pe, !.price_to_book = pbv, !.market_cap = mc] :
                pe \in PEValues, pbv \in PBVCases, mc \in MarketCapCases } :
            b \in Profiles }

\* result = analyzer.analyze(s)
AnalyzeOne ==
    /\ result = None
    /\ \E s \in PeerStocks :
          /\ stock' = Some(s)
          /\ result' = Some(analyze(s, weights, criteria))
    /\ UNCHANGED <<sw, weights, criteria, rerun, helperVars, serviceVars>>

\* analyzer.analyze(s2), s2 being the first StockData with another P/E
AnalyzePeer ==
    /\ result # None
    /\ peer = None
    /\ \E pe \in PEValues :
          LET s2 == [stock[1] EXCEPT !.pe_ratio = pe]
          IN  peer' = Some([ stock  |-> s2,
                             result |-> analyze(s2, weights, criteria) ])
    /\ UNCHANGED <<scoringVars, batch, trend, calls, serviceVars>>

NextPeer ==
    \/ AnalyzeOne
    \/ AnalyzePeer

SpecPeer == Init /\ [][NextPeer]_vars

(***************************************************************************)
(* Specification SpecAccumulate: the accumulation calls made on one        *)
(* ScreeningResult, a new one or one analyze has returned.                 *)
(***************************************************************************)
\* the messages handed to add_red_flag, add_strength and add_weakness
Messages ==
    { Msg("Operating cash flow positif", <<>>),
      Msg("Tidak membayar dividen", <<>>) }

\* the arguments handed to add_insight
InsightArgs ==
    { <<"Risk", "neutral", "Beta data unavailable",
        Msg("Data volatilitas (beta) tidak tersedia", <<>>), "Low">>,
      <<"News", "warning", "Suspensi perdagangan",
        Msg("Saham disuspensi bursa", <<>>), None>> }

\* the results the calls are made on
AccumulateResults ==
    { ScreeningResult(0),
      analyze(AbsentStock, DEFAULT_WEIGHTS, DEFAULT_CRITERIA),
      analyze(BestStock, DEFAULT_WEIGHTS, DEFAULT_CRITERIA) }

Call(op, args) == [op |-> op, args |-> args]

InitAccumulate ==
    /\ NoHelperCall
    /\ NewService
    /\ sw = NoCall
    /\ weights = DEFAULT_WEIGHTS
    /\ criteria = DEFAULT_CRITERIA
    /\ stock = None
    /\ rerun = None
    /\ \E r \in AccumulateResults : result = Some(r)

\* result.add_insight(category, severity, title, description, impact)
AddInsight ==
    /\ Len(calls) < MaxCalls
    /\ \E a \in InsightArgs :
          /\ result' = Some(add_insight(result[1], a[1], a[2], a[3], a[4], a[5]))
          /\ calls' = Append(calls, Call("add_insight", a))
    /\ UNCHANGED <<sw, weights, criteria, stock, rerun>>
    /\ UNCHANGED <<peer, batch, trend, serviceVars>>

\* result.add_red_flag(message)
AddRedFlag ==
    /\ Len(calls) < MaxCalls
    /\ \E m \in Messages :
          /\ result' = Some(add_red_flag(result[1], m))
          /\ calls' = Append(calls, Call("add_red_flag", <<m>>))
    /\ UNCHANGED <<sw, weights, criteria, stock, rerun>>
    /\ UNCHANGED <<peer, batch, trend, serviceVars>>

\* result.add_strength(message)
AddStrength ==
    /\ Len(calls) < MaxCalls
    /\ \E m \in Messages :
          /\ result' = Some(add_strength(result[1], m))
          /\ calls' = Append(calls, Call("add_strength", <<m>>))
    /\ UNCHANGED <<sw, weights, criteria, stock, rerun>>
    /\ UNCHANGED <<peer, batch, trend, serviceVars>>

\* result.add_weakness(message)
AddWeakness ==
    /\ Len(calls) < MaxCalls
    /\ \E m \in Messages :
          /\ result' = Some(add_weakness(result[1], m))
          /\ calls' = Append(calls, Call("add_weakness", <<m>>))
    /\ UNCHANGED <<sw, weights, criteria, stock, rerun>>
    /\ UNCHANGED <<peer, batch, trend, serviceVars>>

NextAccumulate ==
    \/ AddInsight
    \/ AddRedFlag
    \/ AddStrength
    \/ AddWeakness

SpecAccumulate == InitAccumulate /\ [][NextAccumulate]_vars

(***************************************************************************)
(* Specification SpecService: a client calling get_stock_data,             *)
(* get_multiple_stocks and clear_cache on one YahooFinanceService, one     *)
(* call after the other; within get_multiple_stocks the workers of the     *)
(* thread pool and the collecting main thread interleave.  A worker runs   *)
(* get_stock_data(ticker, False): it reads nothing shared and its one      *)
(* shared effect is the cache store (one dict assignment), so its call is  *)
(* one step, taken at that store.                                          *)
(***************************************************************************)
\* "BBCA", "BBCA.JK" and "tlkm " (lower case, trailing blank)
Tickers ==
    { <<"B", "B", "C", "A">>,
      <<"B", "B", "C", "A", ".", "J", "K">>,
      <<"t", "l", "k", "m", " ">> }

\* what is remembered of a call that returned
Reply(op, tickers, use_cache, before, api, value, fetched, futures) ==
    [ op        |-> op,          \* the method called
      tickers   |-> tickers,     \* the tickers passed in
      use_cache |-> use_cache,
      before    |-> before,      \* the cache when the call was made
      api       |-> api,         \* get_stock_data: the Yahoo reply, if asked
      value     |-> value,       \* the value returned
      fetched   |-> fetched,     \* normalized tickers asked of the Yahoo API
      futures   |-> futures ]    \* get_multiple_stocks: the futures at return

InitService ==
    /\ NoHelperCall
    /\ NewService
    /\ sw = NoCall
    /\ weights = DEFAULT_WEIGHTS
    /\ criteria = DEFAULT_CRITERIA
    /\ stock = None
    /\ result = None
    /\ rerun = None

\* service.get_stock_data(ticker, use_cache)
GetStockData ==
    /\ pool = None
    /\ served < MaxRequests
    /\ \E ticker \in Tickers, use_cache \in BOOLEAN, api \in YahooReplies :
          LET r == get_stock_data(cache, yahoo, ticker, use_cache, api)
          IN  /\ cache' = r.cache
              /\ yahoo' = r.yahoo
              /\ reply' = Some(Reply("get_stock_data", <<ticker>>, use_cache, cache,
                                     IF r.fetched THEN Some(api) ELSE None,
                                     r.value,
                                     IF r.fetched THEN {normalize_ticker(ticker)} ELSE {},
                                     <<>>))
    /\ served' = served + 1
    /\ UNCHANGED <<scoringVars, helperVars, pool>>

\* service.clear_cache()
ClearCache ==
    /\ pool = None
    /\ served < MaxRequests
    /\ cache' = <<>>
    /\ reply' = Some(Reply("clear_cache", <<>>, FALSE, cache, None, None, {}, <<>>))
    /\ served' = served + 1
    /\ UNCHANGED <<scoringVars, helperVars, pool, yahoo>>

\* service.get_multiple_stocks(tickers, use_cache, max_workers) up to the
\* submission of the fetches
GetMultipleStocks ==
    /\ pool = None
    /\ served < MaxRequests
    /\ \E tickers \in SeqsUpTo(Tickers, MaxRequests), use_cache \in BOOLEAN,
          max_workers \in 1..MaxWorkers :
          LET pre == Precheck(cache, tickers, use_cache)
              requests == IF tickers = <<>> THEN 1 ELSE Len(tickers)
          IN  /\ served + requests <= MaxRequests
              /\ served' = served + requests
              /\ pool' = Some([ tickers     |-> tickers,
                             use_cache   |-> use_cache,
                             max_workers |-> max_workers,
                             before      |-> cache,
                             fetched     |-> {},
                             results     |-> pre.results,
                             futures     |-> Submit(pre.uncached_tickers) ])
    /\ reply' = None
    /\ UNCHANGED <<scoringVars, helperVars, cache, yahoo>>

\* a worker thread runs one submitted get_stock_data(ticker, False) to its
\* return
Worker ==
    /\ pool # None
    /\ \E i \in DOMAIN pool[1].futures, api \in YahooReplies :
          /\ pool[1].futures[i].state = "queued"
          /\ Cardinality(Ahead(pool[1].futures, i)) < pool[1].max_workers
          /\ LET ticker == pool[1].futures[i].ticker
                 r == get_stock_data(cache, yahoo, ticker, FALSE, api)
             IN  /\ cache' = r.cache
                 /\ yahoo' = r.yahoo
                 /\ pool' = Some([pool[1] EXCEPT
                                     !.futures[i].state = "done",
                                     !.futures[i].value = r.value,
                                     !.fetched = @ \cup {normalize_ticker(ticker)}])
    /\ UNCHANGED <<scoringVars, helperVars, reply, served>>

\* as_completed yields a finished future: results[ticker] = future.result()
Collect ==
    /\ pool # None
    /\ \E i \in DOMAIN pool[1].futures :
          /\ pool[1].futures[i].state = "done"
          /\ pool' = Some([pool[1] EXCEPT
                              !.futures[i].state = "collected",
                              !.results = SetResult(@, pool[1].futures[i].ticker,
                                                    pool[1].futures[i].value)])
    /\ UNCHANGED <<scoringVars, helperVars, cache, reply, served, yahoo>>

\* every future was yielded: return results
ReturnMultiple ==
    /\ pool # None
    /\ \A i \in DOMAIN pool[1].futures : pool[1].futures[i].state = "collected"
    /\ reply' = Some(Reply("get_multiple_stocks", pool[1].tickers, pool[1].use_cache,
                           pool[1].before, None, pool[1].results, pool[1].fetched,
                           pool[1].futures))
    /\ pool' = None
    /\ UNCHANGED <<scoringVars, helperVars, cache, served, yahoo>>

\* the steps of a get_multiple_stocks call in progress
PoolStep ==
    \/ Worker
    \/ Collect
    \/ ReturnMultiple

NextService ==
    \/ GetStockData
    \/ ClearCache
    \/ GetMultipleStocks
    \/ Worker
    \/ Collect
    \/ ReturnMultiple

SpecService == InitService /\ [][NextService]_vars

\* the threads of the pool and the main thread keep being scheduled, and a
\* round with the Yahoo API comes back
SpecServiceFair == SpecService /\ WF_vars(PoolStep)

(***************************************************************************)
(* Properties.                                                             *)
(***************************************************************************)
CategoryScoresOf(res) ==
    { res.metrics.valuation_score, res.metrics.profitability_score,
      res.metrics.risk_score, res.metrics.dividend_score }

\* the metric fields of a StockData are all absent and its EPS history empty
AllAbsent(s) ==
    /\ s.pe_ratio = None /\ s.price_to_book = None /\ s.market_cap = None
    /\ s.eps_history = <<>> /\ s.gross_margin = None /\ s.roe = None
    /\ s.operating_cash_flow = None /\ s.free_cash_flow = None
    /\ s.debt_to_equity = None /\ s.beta = None /\ s.dividend_yield = None

\* the rating the fixed breakpoints give a total score t (in hundredths)
RatingAt(t) ==
    CASE t >= 8000 -> "VERY_STRONG"
      [] t >= 6000 /\ t < 8000 -> "STRONG"
      [] t >= 4000 /\ t < 6000 -> "FAIR"
      [] t >= 2000 /\ t < 4000 -> "WEAK"
      [] t < 2000 -> "VERY_WEAK"

\* C1: under the default criteria, each of the four category scores of a
\* result returned by analyze lies in [0, 100], whatever the StockData.
C1_CategoryScoresInRange ==
    (result # None /\ criteria = DEFAULT_CRITERIA) =>
        \A cs \in CategoryScoresOf(result[1]) : 0 <= cs.score /\ cs.score <= 100

\* C1 witness: a result under the default criteria whose valuation and
\* profitability scorers took every best branch and reached exactly 100.
C1_Witness ==
    /\ result # None
    /\ criteria = DEFAULT_CRITERIA
    /\ result[1].metrics.valuation_score.score = 100
    /\ result[1].metrics.profitability_score.score = 100

\* C2: for every accepted ScoringWeights value, the total_score of a result
\* returned by analyze lies in [0, 100] (0..10000 hundredths).
C2_TotalScoreInRange ==
    result # None =>
        /\ 0 <= result[1].metrics.total_score
        /\ result[1].metrics.total_score <= 10000

\* C3: ScoringWeights(...) raises exactly when the sum of its four arguments
\* is outside [0.99, 1.01]; when it does not raise, the object holds the four
\* arguments unchanged.
C3_ConstructionChecksSum ==
    sw.outcome # "none" =>
        LET a == sw.args[1]
            total == a[1] + a[2] + a[3] + a[4]
        IN  /\ (sw.outcome = "error") <=> (total < 9900 \/ total > 10100)
            /\ (sw.outcome = "error") => sw.obj = None
            /\ (sw.outcome = "ok" /\ sw.assigns = 0) =>
                   sw.obj = Some([ valuation_weight     |-> a[1],
                                   profitability_weight |-> a[2],
                                   risk_weight          |-> a[3],
                                   dividend_weight      |-> a[4] ])

\* C3 witness: a construction that succeeded with the sum exactly on the
\* upper end of the tolerance, 1.01.
C3_Witness ==
    /\ sw.outcome = "ok"
    /\ sw.assigns = 0
    /\ sw.args[1][1] + sw.args[1][2] + sw.args[1][3] + sw.args[1][4] = 10100

\* C4: at every moment of a constructed ScoringWeights object's life,
\* assignments to its fields included, its four weights sum to a value
\* within [0.99, 1.01].
C4_SumStaysInTolerance ==
    sw.obj # None =>
        /\ 9900 <= WeightSum(sw.obj[1])
        /\ WeightSum(sw.obj[1]) <= 10100

\* C5: a ScoringWeights construction that succeeds was given four
\* non-negative weights.
C5_NoNegativeWeightAccepted ==
    sw.outcome = "ok" => \A i \in 1..4 : sw.args[1][i] >= 0

\* C6: in a result returned by analyze, each CategoryScore records the
\* analyzer's weight for its category, and total_score is the sum of
\* score * recorded weight over the four categories rounded to 2 decimals.
C6_TotalIsWeightedSum ==
    result # None =>
        LET m == result[1].metrics
        IN  /\ m.valuation_score.weight = weights.valuation_weight
            /\ m.profitability_score.weight = weights.profitability_weight
            /\ m.risk_score.weight = weights.risk_weight
            /\ m.dividend_score.weight = weights.dividend_weight
            /\ weights = DEFAULT_WEIGHTS =>
                   /\ m.valuation_score.weight = 2500
                   /\ m.profitability_score.weight = 3500
                   /\ m.risk_score.weight = 2000
                   /\ m.dividend_score.weight = 2000
            /\ m.total_score =
                   RoundHalfEven(m.valuation_score.score * m.valuation_score.weight
                                 + m.profitability_score.score * m.profitability_score.weight
                                 + m.risk_score.score * m.risk_score.weight
                                 + m.dividend_score.score * m.dividend_score.weight,
                                 100)

\* C6 witness: a result of an analyzer with non-default weights whose
\* weighted sum is not a whole number of hundredths, so that the rounding
\* acts.
C6_Witness ==
    /\ result # None
    /\ weights # DEFAULT_WEIGHTS
    /\ LET m == result[1].metrics
       IN  (m.valuation_score.score * m.valuation_score.weight
            + m.profitability_score.score * m.profitability_score.weight
            + m.risk_score.score * m.risk_score.weight
            + m.dividend_score.score * m.dividend_score.weight) % 100 # 0

\* C7: calculate_rating_from_score gives VERY_STRONG from 80.00, STRONG on
\* [60, 80), FAIR on [40, 60), WEAK on [20, 40) and VERY_WEAK below 20, and
\* nothing but total_score enters (79.99 is STRONG, 80.00 VERY_STRONG, 39.99
\* WEAK, 19.99 VERY_WEAK).
C7_RatingBreakpoints ==
    (result # None /\ result[1].rating # "INSUFFICIENT_DATA") =>
        LET t == result[1].metrics.total_score
        IN  /\ result[1].rating = RatingAt(t)
            /\ t = 7999 => result[1].rating = "STRONG"
            /\ t = 8000 => result[1].rating = "VERY_STRONG"
            /\ t = 3999 => result[1].rating = "WEAK"
            /\ t = 1999 => result[1].rating = "VERY_WEAK"

\* C7 witness: the rating was derived for a total score of exactly 80.00.
C7_Witness ==
    /\ result # None
    /\ result[1].metrics.total_score = 8000
    /\ result[1].rating = "VERY_STRONG"

\* C8: a result returned by analyze never carries INSUFFICIENT_DATA: its
\* rating is one of the five derived ratings and is the breakpoint
\* derivation of its own total_score.
C8_ReturnedRatingIsDerived ==
    result # None =>
        /\ result[1].rating \in Ratings \ {"INSUFFICIENT_DATA"}
        /\ result[1].rating = RatingAt(result[1].metrics.total_score)

\* C8 witness: a returned result with no data completeness at all and the
\* lowest rating.
C8_Witness ==
    /\ result # None
    /\ result[1].data_completeness = 0
    /\ result[1].rating = "VERY_WEAK"

C10_AbsentData ==
    (result # None /\ AllAbsent(stock[1])) =>
        /\ result[1].metrics.valuation_score.score = 0
        /\ result[1].metrics.dividend_score.score =
               (IF criteria.require_dividend THEN 0 ELSE 20)
        /\ Len(result[1].weaknesses) > 0
        /\ result[1].rating \in {"WEAK", "VERY_WEAK"}

\* C11: batch_analyze on N entries returns N results; they are the results
\* analyze gives for each entry alone, taken in an order p of the input
\* positions in which total_score never increases and entries of equal
\* total_score keep their input order.
C11_BatchIsStableSortOfAnalyze ==
    batch # None =>
        LET in == batch[1].stocks_data
            out == batch[1].results
            N == Len(in)
        IN  /\ Len(out) = N
            /\ \E p \in Permutations(1..N) :
                  /\ \A k \in 1..N : out[k] = analyze(in[p[k]], weights, criteria)
                  /\ \A j, k \in 1..N :
                        j < k =>
                          \/ out[j].metrics.total_score > out[k].metrics.total_score
                          \/ /\ out[j].metrics.total_score = out[k].metrics.total_score
                             /\ p[j] < p[k]

\* C11 witness: a batch of three different entries was analysed in which the
\* lowest-scoring entry came first and the other two tie, and the tied
\* results came out in input order ahead of it.
C11_Witness ==
    /\ batch # None
    /\ Len(batch[1].stocks_data) = 3
    /\ batch[1].stocks_data[2] # batch[1].stocks_data[3]
    /\ LET in == batch[1].stocks_data
           out == batch[1].results
       IN  /\ out[1] # out[2]
           /\ out[1].metrics.total_score = out[2].metrics.total_score
           /\ out[2].metrics.total_score > out[3].metrics.total_score
           /\ out[3] = analyze(in[1], weights, criteria)
           /\ out[1] = analyze(in[2], weights, criteria)

\* the number of adjacent pairs of v whose later value is strictly larger
Increases(v) == Cardinality({i \in 2..Len(v) : v[i - 1] < v[i]})

\* C12: is_growing_trend(values, m) is true exactly when values has at least
\* 2 elements and at least m adjacent pairs strictly increase, m being 3 when
\* omitted; below 2 elements it is false for every m; [1,2,1,3,2,4] is
\* growing at m = 3 and [5,4,3,2,1] is not.
C12_GrowingTrend ==
    trend # None =>
        LET v == trend[1].values
            m == IF trend[1].arg = None THEN 3 ELSE trend[1].arg[1]
        IN  /\ trend[1].returned <=> (Len(v) >= 2 /\ Increases(v) >= m)
            /\ Len(v) < 2 => ~trend[1].returned
            /\ (v = <<1, 2, 1, 3, 2, 4>> /\ m = 3) => trend[1].returned
            /\ (v = <<5, 4, 3, 2, 1>> /\ m = 3) => ~trend[1].returned

\* C12 witness: a list holding a repeated value next to exactly three strict
\* increases was found growing with the minimum omitted.
C12_Witness ==
    /\ trend # None
    /\ trend[1].arg = None
    /\ trend[1].returned
    /\ Increases(trend[1].values) = 3
    /\ \E i \in 2..Len(trend[1].values) :
          trend[1].values[i] = trend[1].values[i - 1]

IncompleteDataFlag ==
    Msg("Data tidak lengkap - beberapa metrik fundamental tidak tersedia", <<>>)

\* C14: whenever the StockData's data_quality_score is below 100, the result
\* analyze returns carries the incomplete-data red flag, and it carries the
\* four category scores, the total and a derived rating.
C14_LowQualityIsFlagged ==
    (result # None /\ stock[1].data_quality_score # None
     /\ stock[1].data_quality_score[1] < 10000) =>
        /\ \E i \in DOMAIN result[1].red_flags :
              result[1].red_flags[i] = IncompleteDataFlag
        /\ result[1].rating # "INSUFFICIENT_DATA"
        /\ result[1].key_metrics # <<>>

\* the entry of normalized ticker n changes in this step
EntryChanges(n) == n \notin DOMAIN cache' \/ cache'[n] # cache[n]

\* this step is a clear_cache call
ClearCacheStep ==
    /\ served' = served + 1
    /\ reply' # None
    /\ reply'[1].op = "clear_cache"

\* this step is a get_stock_data(t, False), called by the client or run by a
\* worker, that fetched a ticker of normalized form n and stored the new
\* object it returned
FetchReplacesStep(n) ==
    /\ n \in DOMAIN cache'
    /\ yahoo'.built = yahoo.built + 1
    /\ cache'[n] = _build_stock_data(n, yahoo'.built)
    /\ \/ /\ pool = None
          /\ served' = served + 1
          /\ reply' # None
          /\ reply'[1].op = "get_stock_data"
          /\ ~reply'[1].use_cache
          /\ normalize_ticker(reply'[1].tickers[1]) = n
          /\ reply'[1].value = Some(cache'[n])
       \/ /\ pool # None
          /\ pool' # None
          /\ \E i \in DOMAIN pool[1].futures :
                /\ pool[1].futures[i].state = "queued"
                /\ pool'[1].futures[i].state = "done"
                /\ normalize_ticker(pool[1].futures[i].ticker) = n
                /\ pool'[1].futures[i].value = Some(cache'[n])

\* the last call asked for ticker t with use_cache=true while the cache held
\* an entry under t's normalized form: it returned that very object and did
\* not ask the Yahoo API for it
ServedFromCache(t, returned) ==
    /\ returned = Some(reply[1].before[normalize_ticker(t)])
    /\ normalize_ticker(t) \notin reply[1].fetched

\* C15: "BBCA" and "BBCA.JK" have the same normalized form; a request made
\* with use_cache=true, through get_stock_data or get_multiple_stocks, for a
\* ticker whose normalized form is in the cache returns the cached object
\* itself without a call to the Yahoo API; and a cache entry stays the same
\* object in every step other than a clear_cache call or a use_cache=false
\* fetch of a ticker with that normalized form.
C15_CachedEntryIsServed ==
    /\ [](/\ normalize_ticker(<<"B", "B", "C", "A">>)
               = <<"B", "B", "C", "A", ".", "J", "K">>
          /\ normalize_ticker(<<"B", "B", "C", "A", ".", "J", "K">>)
               = <<"B", "B", "C", "A", ".", "J", "K">>
          /\ (reply # None /\ reply[1].use_cache) =>
                \A i \in DOMAIN reply[1].tickers :
                    LET t == reply[1].tickers[i]
                    IN  normalize_ticker(t) \in DOMAIN reply[1].before =>
                          /\ reply[1].op = "get_stock_data" =>
                                ServedFromCache(t, reply[1].value)
                          /\ reply[1].op = "get_multiple_stocks" =>
                                /\ t \in DOMAIN reply[1].value
                                /\ ServedFromCache(t, reply[1].value[t]))
    /\ [][\A n \in DOMAIN cache :
              EntryChanges(n) => (ClearCacheStep \/ FetchReplacesStep(n))]_vars

\* C15 witness: after a fetch stored an entry under "BBCA.JK",
\* get_stock_data("BBCA", use_cache=True) returned that object.
C15_Witness ==
    /\ reply # None
    /\ reply[1].op = "get_stock_data"
    /\ reply[1].use_cache
    /\ reply[1].tickers = << <<"B", "B", "C", "A">> >>
    /\ <<"B", "B", "C", "A", ".", "J", "K">> \in DOMAIN reply[1].before
    /\ reply[1].value = Some(reply[1].before[<<"B", "B", "C", "A", ".", "J", "K">>])
    /\ reply[1].fetched = {}

\* the Yahoo API raised, or returned an info mapping that is empty or has no
\* 'symbol' key
ApiFailed(api) == api.raises \/ api.info = {} \/ "symbol" \notin api.info

\* C16: a get_stock_data call whose round with the Yahoo API raised or gave
\* an info mapping that is empty or lacks 'symbol' returned None and left
\* the cache as it was when the call was made; and the step in which a
\* worker's fetch returns None changes no cache entry.
C16_FailedFetchLeavesCache ==
    /\ []((reply # None /\ reply[1].op = "get_stock_data" /\ reply[1].api # None
           /\ ApiFailed(reply[1].api[1])) =>
              /\ reply[1].value = None
              /\ cache = reply[1].before)
    /\ [][(pool # None /\ pool' # None
           /\ \E i \in DOMAIN pool[1].futures :
                 /\ pool[1].futures[i].state = "queued"
                 /\ pool'[1].futures[i].state = "done"
                 /\ pool'[1].futures[i].value = None)
              => cache' = cache]_vars

\* C16 witness: get_stock_data("BBCA", use_cache=False) got an info mapping
\* without 'symbol' while the cache held an entry for "BBCA.JK", returned None
\* and the entry is still there.
C16_Witness ==
    /\ reply # None
    /\ reply[1].op = "get_stock_data"
    /\ reply[1].tickers = << <<"B", "B", "C", "A">> >>
    /\ ~reply[1].use_cache
    /\ reply[1].api = Some([raises |-> FALSE, info |-> {"shortName"}])
    /\ reply[1].value = None
    /\ <<"B", "B", "C", "A", ".", "J", "K">> \in DOMAIN reply[1].before
    /\ <<"B", "B", "C", "A", ".", "J", "K">> \in DOMAIN cache

\* the futures of the returned get_multiple_stocks call that fetched ticker t
FuturesOf(t) ==
    {i \in DOMAIN reply[1].futures : reply[1].futures[i].ticker = t}

\* C17 (what is returned): the mapping get_multiple_stocks returned has one
\* entry for each distinct ticker string passed in, keyed by that string;
\* the entry is the cached object when the ticker was served from the cache,
\* and otherwise what a fetch of that ticker returned (the single fetch's
\* value when the ticker was fetched once): the StockData built for its
\* normalized form, or None when the fetch failed; and the cache holds an
\* entry under the normalized ticker of every fetch that succeeded.
ReturnedMapping ==
    (reply # None /\ reply[1].op = "get_multiple_stocks") =>
        LET tickers == reply[1].tickers
            results == reply[1].value
            futures == reply[1].futures
        IN  /\ DOMAIN results = {tickers[i] : i \in DOMAIN tickers}
            /\ \A t \in DOMAIN results :
                  /\ results[t] # None => results[t][1].ticker = normalize_ticker(t)
                  /\ FuturesOf(t) = {} =>
                        /\ reply[1].use_cache
                        /\ normalize_ticker(t) \in DOMAIN reply[1].before
                        /\ results[t] = Some(reply[1].before[normalize_ticker(t)])
                  /\ FuturesOf(t) # {} =>
                        \E i \in FuturesOf(t) : results[t] = futures[i].value
            /\ \A i \in DOMAIN futures :
                  /\ futures[i].state = "collected"
                  /\ futures[i].value # None =>
                        normalize_ticker(futures[i].ticker) \in DOMAIN cache

\* C17: whatever the ticker list and the interleaving of the workers, a
\* get_multiple_stocks call returns, and what it returns is as ReturnedMapping
\* says.
C17_MultipleStocksReturns ==
    /\ []ReturnedMapping
    /\ (pool # None) ~> (pool = None /\ reply # None
                         /\ reply[1].op = "get_multiple_stocks")

\* C17 witness: get_multiple_stocks was given "BBCA" and "BBCA.JK" with two
\* workers, nothing being cached; the fetch of "BBCA" succeeded, the fetch of
\* "BBCA.JK" failed and was yielded first, and the call returned.
C17_Witness ==
    /\ reply # None
    /\ reply[1].op = "get_multiple_stocks"
    /\ reply[1].tickers = << <<"B", "B", "C", "A">>,
                             <<"B", "B", "C", "A", ".", "J", "K">> >>
    /\ Len(reply[1].futures) = 2
    /\ reply[1].futures[1].value # None
    /\ reply[1].futures[2].value = None
    /\ reply[1].value[<<"B", "B", "C", "A">>] = reply[1].futures[1].value
    /\ reply[1].value[<<"B", "B", "C", "A", ".", "J", "K">>] = None
    /\ DOMAIN cache = { <<"B", "B", "C", "A", ".", "J", "K">> }

\* how many findings of a list carry one of the given texts
CountTexts(findings, texts) ==
    Cardinality({i \in DOMAIN findings : findings[i][1] \in texts})

\* how many insights carry the given title, with the given severity
CountInsights(insights, title, severity) ==
    Cardinality({i \in DOMAIN insights :
                   insights[i].title = title /\ insights[i].severity = severity})

\* the tier of a ratio against its preferred and max thresholds
RatioTier(ratio, preferred, max) ==
    IF ratio = None \/ ratio[1] <= 0 THEN "unavailable"
    ELSE IF ratio[1] <= preferred THEN "best"
    ELSE IF ratio[1] <= max THEN "acceptable"
    ELSE "high"

RatioPoints(tier) ==
    CASE tier = "best" -> 40
      [] tier = "acceptable" -> 25
      [] tier = "high" -> 10
      [] tier = "unavailable" -> 0

\* the tier of a market cap against market_cap_min and market_cap_preferred
MarketCapTier(market_cap, c) ==
    IF market_cap = None THEN "absent"
    ELSE IF market_cap[1] >= c.market_cap_preferred THEN "large"
    ELSE IF market_cap[1] >= c.market_cap_min THEN "moderate"
    ELSE "small"

MarketCapPoints(tier) ==
    CASE tier = "large" -> 20
      [] tier = "moderate" -> 15
      [] tier = "small" -> 5
      [] tier = "absent" -> 0

\* the findings a ratio rule leaves in a result: one finding, of the kind
\* its tier calls for
RatioFindings(res, tier, best, acceptable, high, unavailable) ==
    /\ CountTexts(res.strengths, {best}) = (IF tier = "best" THEN 1 ELSE 0)
    /\ CountInsights(res.insights, acceptable, "positive")
           = (IF tier = "acceptable" THEN 1 ELSE 0)
    /\ CountTexts(res.weaknesses, {high}) = (IF tier = "high" THEN 1 ELSE 0)
    /\ CountTexts(res.weaknesses, {unavailable})
           = (IF tier = "unavailable" THEN 1 ELSE 0)
    /\ CountTexts(res.red_flags, {best, high, unavailable}) = 0
    /\ CountTexts(res.strengths, {high, unavailable}) = 0
    /\ CountTexts(res.weaknesses, {best}) = 0
    /\ Cardinality({i \in DOMAIN res.insights : res.insights[i].title = acceptable})
           = (IF tier = "acceptable" THEN 1 ELSE 0)

C19_MarketCapTiers ==
    result # None =>
        LET s == stock[1]
            r == result[1]
            mc == IF s.market_cap = None THEN "absent"
                  ELSE IF s.market_cap[1] >= 1000 THEN "large"
                  ELSE IF s.market_cap[1] >= 10 THEN "moderate"
                  ELSE "small"
            large == "Market cap besar - blue chip stock"
            moderate == "Market cap moderate"
            small == "Market cap kecil - risiko likuiditas tinggi"
            absent == "Market cap tidak tersedia"
        IN  /\ criteria.market_cap_preferred = 1000 /\ criteria.market_cap_min = 10
            /\ r.metrics.valuation_score.score
                   = RatioPoints(RatioTier(s.pe_ratio, criteria.pe_ratio_preferred,
                                           criteria.pe_ratio_max))
                     + RatioPoints(RatioTier(s.price_to_book, criteria.pbv_preferred,
                                             criteria.pbv_max))
                     + MarketCapPoints(mc)
            /\ CountTexts(r.strengths, {large}) = (IF mc = "large" THEN 1 ELSE 0)
            /\ CountInsights(r.insights, moderate, "neutral")
                   = (IF mc = "moderate" THEN 1 ELSE 0)
            /\ CountTexts(r.red_flags, {small}) = (IF mc = "small" THEN 1 ELSE 0)
            /\ CountTexts(r.weaknesses, {absent}) = (IF mc = "absent" THEN 1 ELSE 0)
            /\ CountTexts(r.weaknesses, {large, small}) = 0
            /\ CountTexts(r.strengths, {small, absent}) = 0
            /\ CountTexts(r.red_flags, {large, absent}) = 0
            /\ Cardinality({i \in DOMAIN r.insights : r.insights[i].title = moderate})
                   = (IF mc = "moderate" THEN 1 ELSE 0)

\* C19 witness: a StockData whose only valuation metric is a market cap below
\* the minimum was analysed: 5 points, a red flag for it, and the two
\* 'unavailable' weaknesses of the ratios as the only valuation weaknesses.
C19_Witness ==
    /\ result # None
    /\ stock[1].market_cap = Some(5)
    /\ stock[1].pe_ratio = None
    /\ stock[1].price_to_book = None
    /\ result[1].metrics.valuation_score.score = 5
    /\ \E i \in DOMAIN result[1].red_flags :
          result[1].red_flags[i][1] = "Market cap kecil - risiko likuiditas tinggi"

\* the EPS values of a history taken by ascending year
ByYear(eps_history) ==
    [k \in 1..Len(eps_history) |->
        LET i == CHOOSE j \in DOMAIN eps_history :
                     Cardinality({m \in DOMAIN eps_history :
                                    eps_history[m][1] < eps_history[j][1]}) = k - 1
        IN  eps_history[i][2]]

\* C20: the EPS rule takes the EPS values by ascending year, whatever the
\* insertion order of the mapping, and adds 0 points and a weakness for
\* fewer than 2 years; else 30 and a strength when at least 3 year-over-year
\* changes are strict increases; else 15 and a neutral 'recovery' insight
\* when the latest year is strictly above the one before; else 5 and a red
\* flag.  (Gross margin, ROE and both cash flows absent, so that the
\* profitability score is the EPS rule's contribution.)
C20_EpsRule ==
    (result # None /\ stock[1].gross_margin = None /\ stock[1].roe = None
     /\ stock[1].operating_cash_flow = None /\ stock[1].free_cash_flow = None) =>
        LET r == result[1]
            v == ByYear(stock[1].eps_history)
            n == Len(v)
            outcome == IF n < 2 THEN "insufficient"
                       ELSE IF Increases(v) >= 3 THEN "growing"
                       ELSE IF v[n] > v[n - 1] THEN "recovery"
                       ELSE "flat"
            growing == "EPS tumbuh konsisten dalam tahun terakhir"
            flat == "EPS tidak menunjukkan pertumbuhan konsisten"
            insufficient == "Historical EPS data tidak cukup"
        IN  /\ r.metrics.profitability_score.score =
                   (CASE outcome = "insufficient" -> 0
                      [] outcome = "growing" -> 30
                      [] outcome = "recovery" -> 15
                      [] outcome = "flat" -> 5)
            /\ CountTexts(r.weaknesses, {insufficient})
                   = (IF outcome = "insufficient" THEN 1 ELSE 0)
            /\ CountTexts(r.strengths, {growing}) = (IF outcome = "growing" THEN 1 ELSE 0)
            /\ CountInsights(r.insights, "EPS recovery", "neutral")
                   = (IF outcome = "recovery" THEN 1 ELSE 0)
            /\ CountTexts(r.red_flags, {flat}) = (IF outcome = "flat" THEN 1 ELSE 0)
            /\ CountTexts(r.weaknesses, {growing, flat}) = 0
            /\ CountTexts(r.strengths, {flat, insufficient}) = 0
            /\ CountTexts(r.red_flags, {growing, insufficient}) = 0
            /\ Cardinality({i \in DOMAIN r.insights :
                              r.insights[i].title = "EPS recovery"})
                   = (IF outcome = "recovery" THEN 1 ELSE 0)

\* C20 witness: an EPS history inserted newest year first, whose values by
\* ascending year increase three times, was analysed and earned 30 points.
C20_Witness ==
    /\ result # None
    /\ Len(stock[1].eps_history) >= 4
    /\ stock[1].eps_history[1][1] > stock[1].eps_history[2][1]
    /\ Increases(ByYear(stock[1].eps_history)) >= 3
    /\ stock[1].gross_margin = None
    /\ result[1].metrics.profitability_score.score = 30

\* the points of the EPS rule for an EPS history
EpsPoints(eps_history) ==
    LET v == ByYear(eps_history)
    IN  IF Len(v) < 2 THEN 0
        ELSE IF Increases(v) >= 3 THEN 30
        ELSE IF v[Len(v)] > v[Len(v) - 1] THEN 15
        ELSE 5

\* the points of a cash-flow check
CashFlowPoints(flow) == IF flow # None /\ flow[1] > 0 THEN 10 ELSE 0

\* a raw margin (hundredths) as a percentage (hundredths of a percent): a raw
\* value of at most 1 is a fraction
AsPercentage(v) == IF v <= 100 THEN v * 100 ELSE v

\* the tier of a raw margin against its preferred and min percentages
MarginTier(margin, preferred, min) ==
    IF margin = None THEN "absent"
    ELSE IF AsPercentage(margin[1]) >= preferred THEN "excellent"
    ELSE IF AsPercentage(margin[1]) >= min THEN "acceptable"
    ELSE "low"

MarginPoints(tier) ==
    CASE tier = "excellent" -> 25
      [] tier = "acceptable" -> 15
      [] tier = "low" -> 5
      [] tier = "absent" -> 0

\* the findings a margin rule leaves in a result: one finding, of the kind
\* its tier calls for
MarginFindings(res, tier, excellent, acceptable, low, absent) ==
    /\ CountTexts(res.strengths, {excellent}) = (IF tier = "excellent" THEN 1 ELSE 0)
    /\ CountInsights(res.insights, acceptable, "positive")
           = (IF tier = "acceptable" THEN 1 ELSE 0)
    /\ CountTexts(res.weaknesses, {low}) = (IF tier = "low" THEN 1 ELSE 0)
    /\ CountTexts(res.weaknesses, {absent}) = (IF tier = "absent" THEN 1 ELSE 0)
    /\ CountTexts(res.red_flags, {excellent, low, absent}) = 0
    /\ CountTexts(res.strengths, {low, absent}) = 0
    /\ CountTexts(res.weaknesses, {excellent}) = 0
    /\ Cardinality({i \in DOMAIN res.insights : res.insights[i].title = acceptable})
           = (IF tier = "acceptable" THEN 1 ELSE 0)

\* the percentage a margin rule recorded in the details, when it recorded one
MarginDetail(details, key, margin) ==
    IF margin = None
    THEN key \notin DOMAIN details
    ELSE key \in DOMAIN details /\ details[key] = AsPercentage(margin[1])

\* C21: for gross margin (preferred 30, min 20) and ROE (preferred 15,
\* min 10), a present raw value v is taken as v * 100 when v <= 1 (exactly 1
\* becomes 100%, zero and negative values are multiplied too) and as v when
\* v > 1; the percentage earns 25 points and a strength when >= preferred,
\* 15 and a positive insight in [min, preferred), 5 and a weakness below min;
\* an absent value earns 0 points and a weakness.
C21_MarginTiers ==
    result # None =>
        LET s == stock[1]
            r == result[1]
            gpm == MarginTier(s.gross_margin, 3000, 2000)
            roe == MarginTier(s.roe, 1500, 1000)
        IN  /\ criteria.gpm_preferred = 3000 /\ criteria.gpm_min = 2000
            /\ criteria.roe_preferred = 1500 /\ criteria.roe_min = 1000
            /\ r.metrics.profitability_score.score
                   = EpsPoints(s.eps_history) + MarginPoints(gpm) + MarginPoints(roe)
                     + CashFlowPoints(s.operating_cash_flow)
                     + CashFlowPoints(s.free_cash_flow)
            /\ MarginFindings(r, gpm, "Gross margin excellent", "Gross margin acceptable",
                              "Gross margin rendah", "Gross margin tidak tersedia")
            /\ MarginFindings(r, roe, "ROE excellent", "ROE acceptable",
                              "ROE rendah", "ROE tidak tersedia")
            /\ MarginDetail(r.metrics.profitability_score.details, "gross_margin",
                            s.gross_margin)
            /\ MarginDetail(r.metrics.profitability_score.details, "roe", s.roe)

\* C21 witness: a StockData whose gross margin is exactly 1 was analysed: the
\* rule recorded 100% and a strength for it.
C21_Witness ==
    /\ result # None
    /\ stock[1].gross_margin = Some(100)
    /\ AllAbsent([stock[1] EXCEPT !.gross_margin = None])
    /\ result[1].metrics.profitability_score.details["gross_margin"] = 10000
    /\ result[1].metrics.profitability_score.score = 25
    /\ \E i \in DOMAIN result[1].strengths :
          result[1].strengths[i][1] = "Gross margin excellent"

\* the outcome of a cash-flow check
CashFlowOutcome(flow) ==
    IF flow = None THEN "absent"
    ELSE IF flow[1] > 0 THEN "positive"
    ELSE "negative"

\* how many findings of a result, of any kind, carry the given text
CountAll(res, text) ==
    CountTexts(res.strengths, {text}) + CountTexts(res.weaknesses, {text})
    + CountTexts(res.red_flags, {text})

\* C22: the two cash-flow checks are independent and asymmetric.  Operating
\* cash flow > 0 adds 10 points and a strength, present and <= 0 adds no
\* points and a red flag, absent adds no points and a weakness; free cash
\* flow > 0 adds 10 points and a strength, present and <= 0 adds no points
\* and a weakness, never a red flag, absent adds no points and a weakness.
C22_CashFlowChecks ==
    result # None =>
        LET s == stock[1]
            r == result[1]
            ocf == CashFlowOutcome(s.operating_cash_flow)
            fcf == CashFlowOutcome(s.free_cash_flow)
        IN  /\ r.metrics.profitability_score.score
                   = EpsPoints(s.eps_history)
                     + MarginPoints(MarginTier(s.gross_margin, criteria.gpm_preferred,
                                               criteria.gpm_min))
                     + MarginPoints(MarginTier(s.roe, criteria.roe_preferred,
                                               criteria.roe_min))
                     + (IF ocf = "positive" THEN 10 ELSE 0)
                     + (IF fcf = "positive" THEN 10 ELSE 0)
            /\ CountTexts(r.strengths, {"Operating cash flow positif"})
                   = (IF ocf = "positive" THEN 1 ELSE 0)
            /\ CountTexts(r.red_flags, {"Operating cash flow negatif - masalah arus kas"})
                   = (IF ocf = "negative" THEN 1 ELSE 0)
            /\ CountTexts(r.weaknesses, {"Operating cash flow tidak tersedia"})
                   = (IF ocf = "absent" THEN 1 ELSE 0)
            /\ CountAll(r, "Operating cash flow positif")
               + CountAll(r, "Operating cash flow negatif - masalah arus kas")
               + CountAll(r, "Operating cash flow tidak tersedia") = 1
            /\ CountTexts(r.strengths, {"Free cash flow positif"})
                   = (IF fcf = "positive" THEN 1 ELSE 0)
            /\ CountTexts(r.weaknesses, {"Free cash flow negatif"})
                   = (IF fcf = "negative" THEN 1 ELSE 0)
            /\ CountTexts(r.weaknesses, {"Free cash flow tidak tersedia"})
                   = (IF fcf = "absent" THEN 1 ELSE 0)
            /\ CountAll(r, "Free cash flow positif")
               + CountAll(r, "Free cash flow negatif")
               + CountAll(r, "Free cash flow tidak tersedia") = 1
            /\ \A i \in DOMAIN r.insights :
                  r.insights[i].description[1]
                      \notin {"Operating cash flow positif",
                              "Operating cash flow negatif - masalah arus kas",
                              "Operating cash flow tidak tersedia",
                              "Free cash flow positif", "Free cash flow negatif",
                              "Free cash flow tidak tersedia"}

\* C22 witness: a StockData whose operating and free cash flow are both
\* present and not positive was analysed: no points, a red flag for the
\* operating cash flow and a weakness for the free cash flow.
C22_Witness ==
    /\ result # None
    /\ stock[1].operating_cash_flow = Some(0)
    /\ stock[1].free_cash_flow = Some(0)
    /\ stock[1].eps_history = <<>>
    /\ stock[1].gross_margin = None
    /\ stock[1].roe = None
    /\ result[1].metrics.profitability_score.score = 0
    /\ \E i \in DOMAIN result[1].red_flags :
          result[1].red_flags[i][1] = "Operating cash flow negatif - masalah arus kas"
    /\ \E i \in DOMAIN result[1].weaknesses :
          result[1].weaknesses[i][1] = "Free cash flow negatif"

\* the tier of a debt-to-equity against preferred 0.5 and max 1.0
LeverageTier(debt_to_equity) ==
    IF debt_to_equity = None THEN "absent"
    ELSE IF debt_to_equity[1] <= 50 THEN "conservative"
    ELSE IF debt_to_equity[1] <= 100 THEN "acceptable"
    ELSE "high"

LeveragePoints(tier) ==
    CASE tier = "conservative" -> 70
      [] tier = "acceptable" -> 45
      [] tier = "high" -> 15
      [] tier = "absent" -> 0

\* the tier of a beta against 1.0 and the nullable beta_max
BetaTier(beta, beta_max) ==
    IF beta = None THEN "absent"
    ELSE IF beta[1] <= 100 THEN "low"
    ELSE IF beta_max # None /\ beta[1] <= beta_max[1] THEN "moderate"
    ELSE "high"

BetaPoints(tier) ==
    CASE tier = "low" -> 30
      [] tier = "moderate" -> 20
      [] tier = "high" -> 5
      [] tier = "absent" -> 15

\* how many insights carry the given title
CountTitles(insights, title) ==
    Cardinality({i \in DOMAIN insights : insights[i].title = title})

C24_BetaTiers ==
    result # None =>
        LET s == stock[1]
            r == result[1]
            beta == BetaTier(s.beta, criteria.beta_max)
            low == "Beta rendah - volatilitas lebih rendah dari market"
            moderate == "Beta moderate"
            high == "Beta tinggi - volatilitas lebih tinggi dari market"
            unavailable == "Beta data unavailable"
        IN  /\ r.metrics.risk_score.score
                   = LeveragePoints(LeverageTier(s.debt_to_equity)) + BetaPoints(beta)
            /\ CountTexts(r.strengths, {low}) = (IF beta = "low" THEN 1 ELSE 0)
            /\ CountInsights(r.insights, moderate, "neutral")
                   = (IF beta = "moderate" THEN 1 ELSE 0)
            /\ CountTexts(r.weaknesses, {high}) = (IF beta = "high" THEN 1 ELSE 0)
            /\ CountInsights(r.insights, unavailable, "neutral")
                   = (IF beta = "absent" THEN 1 ELSE 0)
            /\ CountAll(r, low) + CountAll(r, high)
               + CountAll(r, "Data volatilitas (beta) tidak tersedia")
               + CountTitles(r.insights, moderate)
               + CountTitles(r.insights, unavailable) = 1

\* C24 witness: an analyzer whose beta_max is null analysed a StockData with
\* beta 1.01 and nothing else: 5 points and a weakness for the beta.
C24_Witness ==
    /\ result # None
    /\ criteria.beta_max = None
    /\ stock[1].beta = Some(101)
    /\ stock[1].debt_to_equity = None
    /\ result[1].metrics.risk_score.score = 5
    /\ \E i \in DOMAIN result[1].weaknesses :
          result[1].weaknesses[i][1]
              = "Beta tinggi - volatilitas lebih tinggi dari market"

\* the outcome of the dividend scorer for a raw yield, against preferred 4%
\* and min 2%
DividendTier(dividend_yield) ==
    IF dividend_yield = None \/ dividend_yield[1] <= 0 THEN "none"
    ELSE IF AsPercentage(dividend_yield[1]) >= 400 THEN "excellent"
    ELSE IF AsPercentage(dividend_yield[1]) >= 200 THEN "acceptable"
    ELSE "low"

\* C25: the dividend score is, for a yield present and > 0 taken as a
\* percentage (* 100 when the raw value is <= 1), 100 with a strength when
\* >= 4, 60 with a positive insight in [2, 4), 30 with a weakness below 2;
\* for a yield absent or <= 0, 0 with a red flag when require_dividend is
\* true and 20 with a weakness, no red flag, when it is false.
C25_DividendScore ==
    result # None =>
        LET s == stock[1]
            r == result[1]
            tier == DividendTier(s.dividend_yield)
            required == criteria.require_dividend
            excellent == "Dividend yield sangat baik"
            acceptable == "Dividend yield acceptable"
            low == "Dividend yield rendah"
            none == "Tidak membayar dividen"
        IN  /\ criteria.dividend_yield_preferred = 400
            /\ criteria.dividend_yield_min = 200
            /\ r.metrics.dividend_score.score =
                   (CASE tier = "excellent" -> 100
                      [] tier = "acceptable" -> 60
                      [] tier = "low" -> 30
                      [] tier = "none" -> IF required THEN 0 ELSE 20)
            /\ CountTexts(r.strengths, {excellent}) = (IF tier = "excellent" THEN 1 ELSE 0)
            /\ CountInsights(r.insights, acceptable, "positive")
                   = (IF tier = "acceptable" THEN 1 ELSE 0)
            /\ CountTexts(r.weaknesses, {low}) = (IF tier = "low" THEN 1 ELSE 0)
            /\ CountTexts(r.red_flags, {none})
                   = (IF tier = "none" /\ required THEN 1 ELSE 0)
            /\ CountTexts(r.weaknesses, {none})
                   = (IF tier = "none" /\ ~required THEN 1 ELSE 0)
            /\ CountAll(r, excellent) + CountAll(r, low) + CountAll(r, none)
               + CountTitles(r.insights, acceptable) = 1
            /\ tier # "none" =>
                   r.metrics.dividend_score.details["dividend_yield"]
                       = AsPercentage(s.dividend_yield[1])

\* C25 witness: an analyzer that does not require a dividend analysed a
\* StockData whose dividend yield is 0: 20 points, a weakness and no red
\* flag for the missing dividend.
C25_Witness ==
    /\ result # None
    /\ ~criteria.require_dividend
    /\ stock[1].dividend_yield = Some(0)
    /\ result[1].metrics.dividend_score.score = 20
    /\ \E i \in DOMAIN result[1].weaknesses :
          result[1].weaknesses[i][1] = "Tidak membayar dividen"
    /\ \A i \in DOMAIN result[1].red_flags :
          result[1].red_flags[i][1] # "Tidak membayar dividen"

\* C26: in every result analyze returns, passed is true exactly when the
\* category's final score is >= 50 for valuation, profitability and risk,
\* and exactly when it is >= 40 for dividend.
C26_PassedFlags ==
    result # None =>
        LET m == result[1].metrics
        IN  /\ m.valuation_score.passed <=> (m.valuation_score.score >= 50)
            /\ m.profitability_score.passed <=> (m.profitability_score.score >= 50)
            /\ m.risk_score.passed <=> (m.risk_score.score >= 50)
            /\ m.dividend_score.passed <=> (m.dividend_score.score >= 40)

\* C26 witness: a result whose valuation score is exactly 50 and passed,
\* whose risk score is 15 and did not pass, and whose dividend score is 20
\* and did not pass.
C26_Witness ==
    /\ result # None
    /\ result[1].metrics.valuation_score.score = 50
    /\ result[1].metrics.valuation_score.passed
    /\ result[1].metrics.risk_score.score = 15
    /\ ~result[1].metrics.risk_score.passed
    /\ result[1].metrics.dividend_score.score = 20
    /\ ~result[1].metrics.dividend_score.passed

\* the list of a result an accumulation call works on
ListOf(res, op) ==
    CASE op = "add_insight" -> res.insights
      [] op = "add_red_flag" -> res.red_flags
      [] op = "add_strength" -> res.strengths
      [] op = "add_weakness" -> res.weaknesses

\* the element an accumulation call adds
EntryOf(call) ==
    IF call.op = "add_insight"
    THEN [ category    |-> call.args[1],
           severity    |-> call.args[2],
           title       |-> call.args[3],
           description |-> call.args[4],
           impact      |-> call.args[5] ]
    ELSE call.args[1]

AccumulationCalls == {"add_insight", "add_red_flag", "add_strength", "add_weakness"}

\* the positions of the calls of one kind, and the k-th of them
CallsOf(op) == {i \in DOMAIN calls : calls[i].op = op}

NthCallOf(op, k) ==
    CHOOSE i \in CallsOf(op) : Cardinality({j \in CallsOf(op) : j < i}) = k - 1

\* each list ends with the entries of the calls made on it, in call order
InCallOrder ==
    result # None =>
        \A op \in AccumulationCalls :
            LET list == ListOf(result[1], op)
                n == Cardinality(CallsOf(op))
            IN  /\ Len(list) >= n
                /\ \A k \in 1..n :
                      list[Len(list) - n + k] = EntryOf(calls[NthCallOf(op, k)])

\* a step that makes an accumulation call adds exactly one element at the
\* end of the call's own list, keeps every earlier element in place, and
\* leaves the other three lists, the scores and the rating unchanged
AppendsOne ==
    calls' # calls =>
        LET call == calls'[Len(calls')]
            before == ListOf(result[1], call.op)
            after == ListOf(result'[1], call.op)
        IN  /\ Len(after) = Len(before) + 1
            /\ after[Len(after)] = EntryOf(call)
            /\ \A i \in DOMAIN before : after[i] = before[i]
            /\ \A op \in AccumulationCalls \ {call.op} :
                  ListOf(result'[1], op) = ListOf(result[1], op)
            /\ result'[1].metrics = result[1].metrics
            /\ result'[1].rating = result[1].rating
            /\ result'[1].key_metrics = result[1].key_metrics
            /\ result'[1].data_completeness = result[1].data_completeness

\* C27: the four accumulation calls are append-only: each of add_insight,
\* add_strength, add_weakness and add_red_flag adds exactly one element at
\* the end of its own list, keeps every earlier element of that list in
\* place, and leaves the other three lists, the scores and the rating
\* unchanged; after any sequence of calls each list holds its entries in
\* call order.
C27_AppendOnly == []InCallOrder /\ [][AppendsOne]_vars

\* C27 witness: two red flags with different messages and then a strength
\* were added to a result that analyze had returned with red flags already:
\* the old red flags come first, then the two new ones in call order.
C27_Witness ==
    /\ Len(calls) = 3
    /\ calls[1].op = "add_red_flag"
    /\ calls[2].op = "add_red_flag"
    /\ calls[1].args # calls[2].args
    /\ calls[3].op = "add_strength"
    /\ Len(result[1].red_flags) > 2
    /\ result[1].rating = "VERY_WEAK"
    /\ result[1].red_flags[Len(result[1].red_flags) - 1] = calls[1].args[1]
    /\ result[1].red_flags[Len(result[1].red_flags)] = calls[2].args[1]

\* the number of findings of every kind a result holds
FindingsOf(res) ==
    Len(res.strengths) + Len(res.weaknesses) + Len(res.red_flags) + Len(res.insights)

\* the incomplete-data red flag is among the red flags of a result
FlagRaised(res) ==
    \E i \in DOMAIN res.red_flags : res.red_flags[i] = IncompleteDataFlag

\* C28: every scoring sub-rule records exactly one finding on every branch:
\* the result of analyze holds 11 findings (3 valuation, 5 profitability,
\* 2 risk, 1 dividend) over its four lists when the incomplete-data red flag
\* is not raised, and 12 when it is.
C28_FindingsCount ==
    result # None =>
        FindingsOf(result[1]) = (IF FlagRaised(result[1]) THEN 12 ELSE 11)

\* C28 witness: a StockData with complete data was analysed: no
\* incomplete-data red flag and 11 findings, among them a strength, a red
\* flag and an insight.
C28_Witness ==
    /\ result # None
    /\ ~FlagRaised(result[1])
    /\ FindingsOf(result[1]) = 11
    /\ Len(result[1].strengths) > 0
    /\ Len(result[1].red_flags) > 0
    /\ Len(result[1].insights) > 0

\* what the EPS rule contributed to the profitability score of a result: the
\* score less the contributions of the four other rules
EpsContribution(res, s, c) ==
    res.metrics.profitability_score.score
    - MarginPoints(MarginTier(s.gross_margin, c.gpm_preferred, c.gpm_min))
    - MarginPoints(MarginTier(s.roe, c.roe_preferred, c.roe_min))
    - CashFlowPoints(s.operating_cash_flow)
    - CashFlowPoints(s.free_cash_flow)

\* C29: an EPS history with fewer than 4 distinct years never earns the
\* 30-point 'growing' contribution; a strictly increasing history of exactly
\* 2 or 3 years earns 15 points (recovery); and the details entry eps_trend
\* is 'growing' exactly when the 30 points were awarded.
C29_ShortHistoryNeverGrowing ==
    result # None =>
        LET s == stock[1]
            r == result[1]
            v == ByYear(s.eps_history)
            years == Cardinality({s.eps_history[i][1] : i \in DOMAIN s.eps_history})
            eps == EpsContribution(r, s, criteria)
            details == r.metrics.profitability_score.details
            growing == "EPS tumbuh konsisten dalam tahun terakhir"
        IN  /\ years < 4 =>
                  /\ eps # 30
                  /\ CountAll(r, growing) = 0
            /\ (years \in {2, 3} /\ Increases(v) = years - 1) =>
                  /\ eps = 15
                  /\ CountInsights(r.insights, "EPS recovery", "neutral") = 1
            /\ ("eps_trend" \in DOMAIN details /\ details["eps_trend"] = "growing")
                   <=> (eps = 30)
            /\ (eps = 30) <=> (CountTexts(r.strengths, {growing}) = 1)

\* C29 witness: a strictly increasing EPS history of exactly 3 years was
\* analysed: 15 points, the recovery insight, and eps_trend 'declining'.
C29_Witness ==
    /\ result # None
    /\ Len(stock[1].eps_history) = 3
    /\ Increases(ByYear(stock[1].eps_history)) = 2
    /\ EpsContribution(result[1], stock[1], criteria) = 15
    /\ result[1].metrics.profitability_score.details["eps_trend"] = "declining"
    /\ \E i \in DOMAIN result[1].insights : result[1].insights[i].title = "EPS recovery"

\* C30: analyze records the incomplete-data red flag exactly when at least
\* one of P/E, P/B, ROE, gross margin and debt/equity is absent, a present
\* value of zero counting as present; data_quality_score and the absence of
\* any other field (market cap, beta, cash flows, dividend yield, EPS
\* history) have no effect on it.
C30_IncompleteDataFlag ==
    result # None =>
        LET s == stock[1]
            absent == {f \in {"pe_ratio", "price_to_book", "roe", "gross_margin",
                              "debt_to_equity"} : s[f] = None}
        IN  /\ FlagRaised(result[1]) <=> (absent # {})
            /\ Cardinality({i \in DOMAIN result[1].red_flags :
                              result[1].red_flags[i] = IncompleteDataFlag})
                   = (IF absent # {} THEN 1 ELSE 0)

\* C30 witness: a StockData with a P/E of zero and the four other required
\* metrics present was analysed: no incomplete-data red flag.
C30_Witness ==
    /\ result # None
    /\ stock[1].pe_ratio = Some(0)
    /\ stock[1].price_to_book # None
    /\ stock[1].roe # None
    /\ stock[1].gross_margin # None
    /\ stock[1].debt_to_equity # None
    /\ ~FlagRaised(result[1])

====
